---- MODULE Spec2Model ----
(***************************************************************************)
(* Model of the log processing engine of minisource/log: the ingestion     *)
(* buffer and its flushes (LogService.BufferLog / flushBuffer /            *)
(* backgroundFlush / Close), process shutdown (main), the alert evaluator  *)
(* (checkAlerts / triggerAlert), the retention cleaner (Cleanup) and the   *)
(* query cache layer (Query / getCachedResult / cacheResult).              *)
(***************************************************************************)
EXTENDS Integers, Sequences, FiniteSets, TLC

(***************************************************************************)
(* Bounds of the model.                                                    *)
(***************************************************************************)
\* Number of entries handed to BufferLog, each by its own goroutine.
MaxEntries == 2
\* The high-water mark of the buffer.  The code uses 1000 (part_002:179);
\* the model scales it down so that the mark is reached.
HighWater == 2

\* Number of IngestSingle calls (alert specification).
MaxIngest == 2
\* Number of alert rules that can be created.
MaxRules == 1
\* The wall clock, in seconds, does not advance beyond this.
MaxClock == 90

\* Number of rows the retention specification inserts into log_entries.
MaxRows == 2
\* The day clock of the retention specification advances at most this far.
MaxDays == 1

\* config.Retention.RetentionDays: the default of LOG_RETENTION_DAYS.
DefaultRetentionDays == 30
\* The retention windows, in days, a tenant's policy can carry.
RetentionChoices == {7, 90}
\* The ages, in days, of the rows inserted (caller-supplied timestamps).
AgeChoices == {7, 30, 90}

\* Number of Query calls.
MaxQueries == 2
\* The query scenarios run until the clock reads QueryHorizon seconds.
QueryHorizon == 45

\* The TTL, in seconds, Query passes to cacheResult (30*time.Second).
CacheTTL == 30
\* time.Minute in seconds: the cooldown of triggerAlert.
Minute == 60
\* The amounts, in seconds, by which the clock advances in one step.
ClockSteps == {15}

Entries == 1..MaxEntries
IngestIds == 1..MaxIngest
\* The goroutine IngestBatch spawns; the IngestSingle calls name their own
\* checkAlerts goroutines.
BatchTask == 0
EvalTasks == IngestIds \cup {BatchTask}
\* The i-th entry of the batch.
BatchId(i) == MaxIngest + i
Rules == 1..MaxRules
\* The tenants: any of them may or may not carry a retention policy.
Tenants == {1, 2}
QueryIds == 1..MaxQueries
\* A nil *time.Time (LogAlert.LastTriggered never set).
NoTime == -1

VARIABLES
    \* ---- ingestion buffer (LogService) ----
    buffer,        \* s.buffer: the sequence of buffered entries
    bufferMu,      \* s.bufferMu: the goroutine holding the mutex, or NoHolder
    subPc,         \* position of the BufferLog call of each entry
    flushPc,       \* position of each flushBuffer call
    flushEntries,  \* the local variable `entries` of each flushBuffer call
    created,       \* history: the batches passed to logRepo.CreateBatch, in call order
    store,         \* the log_entries table: the entries made durable
    failedWrites,  \* history: the batches whose CreateBatch returned an error
    tickPending,   \* a tick waits in flushTicker.C
    tickerStopped, \* flushTicker.Stop() has been called
    \* ---- process lifecycle (main) ----
    mainPc,        \* position of main() after the server has started
    cleanupPc,     \* position of the startCleanupScheduler goroutine
    redisClosed,   \* redisClient.Close() has been called
    dbClosed,      \* sqlDB.Close() has been called
    closeSnapshot, \* history: the buffer's contents when Close() was called
    lateSubmit,    \* history: a BufferLog call ran concurrently with or after Close()
    lateStarts,    \* history: timer-driven work started after shutdown began
    earlyFlushes,  \* history: the flushBuffer calls in progress when Close() was called
    \* ---- wall clock ----
    now,           \* time.Now() / the database's NOW(), in seconds
    \* ---- alert evaluator ----
    alerts,        \* the log_alerts table: a set of rule records
    ingestPc,      \* position of each IngestSingle call
    ingestEntry,   \* the entry of each IngestSingle call
    ingestResult,  \* what each IngestSingle call returned
    evalPc,        \* position of the checkAlerts goroutine of each ingestion
    evalTodo,      \* the rules loaded by FindEnabled that the loop has not visited yet
    notifications, \* history: the "Alert triggered" notifications, in order
    updateFailed,  \* history: some UpdateLastTriggered call returned an error
    adminPc,       \* position of the EnableAlert / DisableAlert call on each rule
    adminRow,      \* the row that call loaded with FindByID, as it will save it
    batchPc,       \* position of the IngestBatch call
    batchEntries,  \* batch.Entries of that call
    batchResult,   \* what IngestBatch returned
    batchLoop,     \* position of the goroutine IngestBatch spawned
    batchIdx,      \* index of that goroutine's range loop
    evalStarted,   \* history: the entries checkAlerts was called for
    matchEntry,    \* the entry of a matchesAlert call
    matchFilter,   \* alert.Filter of that call
    matchResult,   \* what the call returned
    stampPc,       \* position of the call that fills in identifier and timestamp
    stampPath,     \* which operation it is: IngestSingle, IngestBatch or BufferLog
    stampIn,       \* the entries as the caller passed them
    stampOut,      \* the entries as the operation goes on with them
    stampIdx,      \* index of IngestBatch's `for i := range entries`
    stampNow,      \* IngestBatch's local `now`
    stampCallAt,   \* history: the clock reading when the call was made
    stampCalls,    \* number of such calls made
    uuidIssued,    \* history: the values uuid.New() returned, in order
    keyFilterA,    \* the filter of the Query call that writes the cache
    keyFilterB,    \* the filter of the Query call that reads it
    keyA,          \* the key the writer built
    keyB,          \* the key the reader built
    keyServed,     \* whether the reader's GET returned what the writer SET
    policyTable,   \* the rows of log_retention_policies, with their ids
    policyOp,      \* history: the last policy operation, its input and outcome
    readTables,    \* two contents of the log_entries table, compared read by read
    readResp,      \* the last read request and its response over each of the two
    dlExpired,     \* the one-hour deadline of the Cleanup in progress has passed
    dlCall,        \* the DeleteOlderThan call in progress under that deadline
    dlCalls,       \* history: the DeleteOlderThan calls of that Cleanup that returned
    lastRun,       \* history: the state in which the previous Cleanup returned
    streamPc,      \* position of the Stream handler: closed, poll, mark, sleep, ended
    streamTenant,  \* filter.TenantID of the stream
    streamRows,    \* the log_entries rows the stream's queries read
    streamNow,     \* time.Now() in seconds (the clock of the stream specification)
    lastCheck,     \* the local variable lastCheck of Stream
    streamOut,     \* history: per poll, the StartTime used and the entries written
    persisted,     \* history: the entries the ingestion endpoints persisted, per request
    evalFailed,    \* the checkAlerts calls in progress in which a rule's filter did not parse
    \* ---- retention cleaner ----
    today,         \* time.Now() in days (the clock of the retention specification)
    policies,      \* the log_retention_policies table
    logRows,       \* the log_entries table with each row's tenant and timestamp (day)
    rowsInserted,  \* the number of rows inserted so far (the source of fresh row ids)
    cleanPc,       \* position inside LogService.Cleanup
    cleanTodo,     \* the loaded policies the loop has not visited yet
    cleanPolicies, \* history: the policies FindAll returned to the Cleanup in progress
    cleanRows,     \* history: log_entries when the Cleanup in progress started
    cleanAllOk,    \* history: no store call of the Cleanup in progress has failed
    cleanResult,   \* what the last Cleanup returned
    deletions,     \* history: the rows the Cleanup in progress deleted, and by which pass
    cleanCalls,    \* history: the DeleteOlderThan calls of the Cleanup in progress, in order
    \* ---- query cache layer ----
    redis,         \* s.redis != nil: the service was constructed with a cache client
    cache,         \* the cache's content: for each key its payload, expiry, writer and
                   \* (history) when the store returned the payload and when it was written
    qPc,           \* position of each Query call
    qFilter,       \* the filter of each Query call
    qStored,       \* what logRepo.Query returned to each Query call
    qResult,       \* what each Query call returned
    qSeen,         \* history: the writer of the record the call read under its key
    qSeenLive,     \* history: the record the call read had not expired
    qTrouble,      \* history: the cache failure each call met
    qStoredAt,     \* the time logRepo.Query returned to a call that has yet to cache
    qServedAge,    \* history: how long before a hit served it the result was returned
                   \* by the store and written to the cache
    storeQueries,  \* history: the number of logRepo.Query calls of each Query call
    setCalls       \* history: the redis Set calls of each Query call

bufferVars == <<buffer, bufferMu, subPc, flushPc, flushEntries, created, store,
                failedWrites, tickPending, tickerStopped>>
mainVars == <<mainPc, cleanupPc, redisClosed, dbClosed, closeSnapshot, lateSubmit,
              lateStarts, earlyFlushes>>
clockVars == <<now, today>>
retVars == <<policies, logRows, rowsInserted, cleanPc, cleanTodo, cleanPolicies, cleanRows, cleanAllOk,
             cleanResult, deletions, cleanCalls>>
adminVars == <<adminPc, adminRow>>
batchCall == <<batchPc, batchEntries, batchResult, batchLoop, batchIdx>>
batchVars == <<batchCall, evalStarted>>
matchVars == <<matchEntry, matchFilter, matchResult>>
policyVars == <<policyTable, policyOp>>
\* The state of the further operations observed one at a time.
readVars == <<readTables, readResp>>
deadlineVars == <<dlExpired, dlCall, dlCalls>>
streamVars == <<streamPc, streamTenant, streamRows, streamNow, lastCheck, streamOut>>
callVars == <<policyVars, readVars, deadlineVars, lastRun, streamVars, persisted>>
\* What the operations of one group leave alone in the others.
notPolicyVars == <<readVars, deadlineVars, lastRun, streamVars, persisted>>
notReadVars == <<policyVars, deadlineVars, lastRun, streamVars, persisted>>
notDeadlineVars == <<policyVars, readVars, lastRun, streamVars, persisted>>
notRerunVars == <<policyVars, readVars, deadlineVars, streamVars, persisted>>
notStreamVars == <<policyVars, readVars, deadlineVars, lastRun, persisted>>
notEndpointVars == <<policyVars, readVars, deadlineVars, lastRun, streamVars>>
keyVars == <<keyFilterA, keyFilterB, keyA, keyB, keyServed>>
stampVars == <<stampPc, stampPath, stampIn, stampOut, stampIdx, stampNow, stampCallAt,
               stampCalls, uuidIssued>>
alertVars == <<alerts, ingestPc, ingestEntry, ingestResult, evalPc, evalTodo,
               notifications, updateFailed, adminVars, batchVars, matchVars, stampVars, keyVars, callVars, evalFailed>>
\* The buffer's variables without the log_entries table.
bufferOnly == <<buffer, bufferMu, subPc, flushPc, flushEntries, created, failedWrites,
                tickPending, tickerStopped>>
queryVars == <<redis, cache, qPc, qFilter, qStored, qResult, qSeen, qSeenLive, qTrouble,
               qStoredAt, qServedAge,
               storeQueries, setCalls>>
vars == <<bufferVars, mainVars, clockVars, alertVars, retVars, queryVars>>
\* What the buffer and lifecycle actions leave alone.
notBuffer == <<clockVars, alertVars, retVars, queryVars>>

(***************************************************************************)
(* Goroutines that touch the buffer.                                       *)
(***************************************************************************)
NoHolder == <<"none", 0>>
TimerTask == <<"timer", 0>>     \* the backgroundFlush goroutine
CloseTask == <<"close", 0>>     \* main, inside LogService.Close
HwTask(e) == <<"hw", e>>        \* `go s.flushBuffer()` spawned by BufferLog(e)
Submitter(e) == <<"submit", e>> \* the caller of BufferLog(e)
FlushTasks == {TimerTask, CloseTask} \cup {HwTask(e) : e \in Entries}

SeqToSet(s) == {s[i] : i \in 1..Len(s)}
Count(s, x) == Cardinality({i \in 1..Len(s) : s[i] = x})

\* No row of log_alerts.
NoRule == [ID |-> 0]

\* The fields of models.LogFilter that matchesAlert does not read.
OtherFields == {"min_level", "start_time", "end_time", "trace_id", "user_id",
                "request_id", "search", "environment"}
\* A rule's filter document (LogAlert.Filter, raw JSON).  Valid: whether
\* json.Unmarshal into a LogFilter succeeds; ServiceName, Level, TenantID: the
\* values it decodes ("" / 0 when the key is absent); Other: which of the
\* remaining keys the document carries.
NoFilterDoc == [Valid |-> FALSE, ServiceName |-> "", Level |-> "", TenantID |-> 0,
                Other |-> {}]

\* The entry of an IngestSingle call that has not started.
NoEntry == [Level |-> "", ServiceName |-> "", TenantID |-> 0]

(***************************************************************************)
(* Filters, results and their serializations (query cache layer).          *)
(***************************************************************************)
\* The filters of the Query calls: the fields of models.LogFilter that the
\* calls of this model set (0 is the zero value: nil tenant, page 0).
QueryFilters ==
    { [TenantID |-> 0, Page |-> 0, PageSize |-> 0],
      [TenantID |-> 1, Page |-> 1, PageSize |-> 1] }
NoFilter == [TenantID |-> 0, Page |-> -1, PageSize |-> -1]

\* json.Marshal(filter): every field of LogFilter is tagged omitempty, so
\* the document holds the non-zero fields, in declaration order.
MarshalFilter(f) ==
    (IF f.TenantID # 0 THEN <<<<"tenant_id", f.TenantID>>>> ELSE <<>>)
    \o (IF f.Page # 0 THEN <<<<"page", f.Page>>>> ELSE <<>>)
    \o (IF f.PageSize # 0 THEN <<<<"page_size", f.PageSize>>>> ELSE <<>>)

\* LogService.buildCacheKey: "log_query:" followed by the hex form of the
\* document (the hex form is one-to-one, so the document stands for it; the
\* characters of the key are CacheKeyString below).
buildCacheKey(f) == <<"log_query:", MarshalFilter(f)>>

\* A key that was not built yet.
NoKey == <<>>

CacheKeys == {buildCacheKey(f) : f \in QueryFilters}

\* A value returned by a call: Ok with a LogQueryResult, or an error.
NoReturn == [Kind |-> "none"]
ErrReturn == [Kind |-> "error"]
OkReturn(result) == [Kind |-> "ok", Value |-> result]

\* json.Marshal(result) for a *LogQueryResult: no field is omitted.
MarshalResult(r) ==
    << <<"entries", r.Entries>>, <<"total_count", r.TotalCount>>, <<"page", r.Page>>,
       <<"page_size", r.PageSize>>, <<"has_more", r.HasMore>> >>

\* A payload that is no JSON document of a LogQueryResult.
Garbage == <<"garbage">>

\* json.Unmarshal(data, &result): the error flag and the decoded result.
UnmarshalResult(data) ==
    IF data = Garbage
      THEN [Err |-> TRUE]
      ELSE [Err |-> FALSE,
            Value |-> [Entries |-> data[1][2], TotalCount |-> data[2][2],
                       Page |-> data[3][2], PageSize |-> data[4][2],
                       HasMore |-> data[5][2]]]

\* A key the cache holds nothing under.  Writer names the Query call that
\* wrote a record (0: a writer outside this process).
NoCacheEntry ==
    [Data |-> <<>>, Expires |-> NoTime, Writer |-> -1, Fetched |-> NoTime, Written |-> NoTime]

\* No result was served from the cache.
NoAge == [SinceFetched |-> NoTime, SinceWritten |-> NoTime]

\* The process has not exited: goroutines only run while main has not returned.
Alive == mainPc # "stopped"

\* No policy operation was observed yet.
NoPolicyOp == [Op |-> "none"]

\* No DeleteOlderThan call is in progress.
NoCall == [Tenant |-> -1]

\* No Cleanup has returned yet.
NoRun == [AllOk |-> FALSE]

\* No read request was observed yet.
NoRead == [Op |-> "none"]

InitCommon ==
    /\ buffer = <<>>
    /\ bufferMu = NoHolder
    /\ subPc = [e \in Entries |-> "idle"]
    /\ flushPc = [t \in FlushTasks |-> "idle"]
    /\ flushEntries = [t \in FlushTasks |-> <<>>]
    /\ created = <<>>
    /\ store = {}
    /\ failedWrites = {}
    /\ tickPending = FALSE
    /\ tickerStopped = FALSE
    /\ mainPc = "running"
    /\ cleanupPc = "idle"
    /\ redisClosed = FALSE
    /\ dbClosed = FALSE
    /\ closeSnapshot = <<>>
    /\ lateSubmit = FALSE
    /\ lateStarts = {}
    /\ earlyFlushes = {}
    /\ now = 0
    /\ alerts = {}
    /\ ingestPc = [e \in IngestIds |-> "idle"]
    /\ ingestEntry = [e \in EvalTasks |-> NoEntry]
    /\ ingestResult = [e \in IngestIds |-> "none"]
    /\ evalPc = [e \in EvalTasks |-> "idle"]
    /\ evalTodo = [e \in EvalTasks |-> {}]
    /\ notifications = <<>>
    /\ updateFailed = FALSE
    /\ adminPc = [r \in Rules |-> "idle"]
    /\ adminRow = [r \in Rules |-> NoRule]
    /\ batchPc = "idle"
    /\ batchEntries = <<>>
    /\ batchResult = "none"
    /\ batchLoop = "idle"
    /\ batchIdx = 0
    /\ evalStarted = {}
    /\ stampPc = "idle"
    /\ stampPath = "none"
    /\ stampIn = <<>>
    /\ stampOut = <<>>
    /\ stampIdx = 0
    /\ stampNow = NoTime
    /\ stampCallAt = NoTime
    /\ stampCalls = 0
    /\ uuidIssued = <<>>
    /\ policyTable = {}
    /\ policyOp = NoPolicyOp
    /\ readTables = <<{}, {}>>
    /\ readResp = NoRead
    /\ evalFailed = {}
    /\ dlExpired = FALSE
    /\ dlCall = NoCall
    /\ dlCalls = <<>>
    /\ lastRun = NoRun
    /\ streamPc = "closed"
    /\ streamTenant = 0
    /\ streamRows = {}
    /\ streamNow = 0
    /\ lastCheck = NoTime
    /\ streamOut = <<>>
    /\ persisted = {}
    /\ today = 0
    /\ policies = {}
    /\ logRows = {}
    /\ rowsInserted = 0
    /\ cleanPc = "idle"
    /\ cleanTodo = {}
    /\ cleanPolicies = {}
    /\ cleanRows = {}
    /\ cleanAllOk = TRUE
    /\ cleanResult = "none"
    /\ deletions = {}
    /\ cleanCalls = <<>>
    /\ cache = [k \in CacheKeys |-> NoCacheEntry]
    /\ qPc = [q \in QueryIds |-> "idle"]
    /\ qFilter = [q \in QueryIds |-> NoFilter]
    /\ qStored = [q \in QueryIds |-> NoReturn]
    /\ qResult = [q \in QueryIds |-> NoReturn]
    /\ qSeen = [q \in QueryIds |-> NoCacheEntry.Writer]
    /\ qSeenLive = [q \in QueryIds |-> FALSE]
    /\ qStoredAt = [q \in QueryIds |-> NoTime]
    /\ qServedAge = [q \in QueryIds |-> NoAge]
    /\ qTrouble = [q \in QueryIds |-> {}]
    /\ storeQueries = [q \in QueryIds |-> 0]
    /\ setCalls = [q \in QueryIds |-> <<>>]

\* No matchesAlert call under observation.
NoMatchCall ==
    /\ matchEntry = NoEntry
    /\ matchFilter = NoFilterDoc
    /\ matchResult = "none"

\* No buildCacheKey call under observation.
NoKeyCall ==
    /\ keyFilterA = NoFilter
    /\ keyFilterB = NoFilter
    /\ keyA = NoKey
    /\ keyB = NoKey
    /\ keyServed = FALSE

\* The state after construction.  main passes a cache client to NewLogService
\* when Redis is configured and answers the ping.
Init == InitCommon /\ NoMatchCall /\ NoKeyCall /\ redis = TRUE

\* The state after construction, with or without a cache client.
InitQuery == InitCommon /\ NoMatchCall /\ NoKeyCall /\ redis \in BOOLEAN

(***************************************************************************)
(* LogService.BufferLog                                                    *)
(***************************************************************************)
\* s.bufferMu.Lock() in BufferLog.
BufferLock(e) ==
    /\ Alive
    /\ subPc[e] = "idle"
    /\ bufferMu = NoHolder
    /\ bufferMu' = Submitter(e)
    /\ subPc' = [subPc EXCEPT ![e] = "locked"]
    /\ lateSubmit' = (lateSubmit \/ mainPc \notin {"running", "signalled"})
    /\ UNCHANGED <<buffer, flushPc, flushEntries, created, store, failedWrites,
                   tickPending, tickerStopped>>
    /\ UNCHANGED <<mainPc, cleanupPc, redisClosed, dbClosed, closeSnapshot, lateStarts, earlyFlushes>>
    /\ UNCHANGED notBuffer

\* A BufferLog that would also write the entry through to the store.
BufferAppendWriteThrough(e) ==
    /\ Alive
    /\ subPc[e] = "locked"
    /\ buffer' = Append(buffer, e)
    /\ store' = store \cup {e}
    /\ bufferMu' = NoHolder
    /\ subPc' = [subPc EXCEPT ![e] = IF Len(buffer') >= HighWater THEN "spawn" ELSE "done"]
    /\ UNCHANGED <<flushPc, flushEntries, created, failedWrites, tickPending,
                   tickerStopped>>
    /\ UNCHANGED mainVars
    /\ UNCHANGED notBuffer

\* A BufferLog that would also start an alert evaluation for the entry.
BufferAppendEvaluating(e) ==
    /\ Alive
    /\ subPc[e] = "locked"
    /\ buffer' = Append(buffer, e)
    /\ bufferMu' = NoHolder
    /\ subPc' = [subPc EXCEPT ![e] = IF Len(buffer') >= HighWater THEN "spawn" ELSE "done"]
    /\ evalStarted' = evalStarted \cup {e}
    /\ UNCHANGED <<flushPc, flushEntries, created, store, failedWrites, tickPending,
                   tickerStopped>>
    /\ UNCHANGED mainVars
    /\ UNCHANGED <<clockVars, retVars, queryVars>>
    /\ UNCHANGED <<alerts, ingestPc, ingestEntry, ingestResult, evalPc, evalTodo,
                   notifications, updateFailed, adminVars, batchCall, matchVars, stampVars,
                   keyVars, callVars, evalFailed>>

\* s.buffer = append(s.buffer, entry); shouldFlush := len(s.buffer) >= 1000; Unlock.
BufferAppend(e) ==
    /\ Alive
    /\ subPc[e] = "locked"
    /\ buffer' = Append(buffer, e)
    /\ bufferMu' = NoHolder
    /\ subPc' = [subPc EXCEPT ![e] = IF Len(buffer') >= HighWater THEN "spawn" ELSE "done"]
    /\ UNCHANGED <<flushPc, flushEntries, created, store, failedWrites, tickPending,
                   tickerStopped>>
    /\ UNCHANGED mainVars
    /\ UNCHANGED notBuffer

\* A BufferLog that would leave the flush to the timer.
BufferSpawnNothing(e) ==
    /\ Alive
    /\ subPc[e] = "spawn"
    /\ subPc' = [subPc EXCEPT ![e] = "done"]
    /\ UNCHANGED <<buffer, bufferMu, flushPc, flushEntries, created, store, failedWrites,
                   tickPending, tickerStopped>>
    /\ UNCHANGED mainVars
    /\ UNCHANGED notBuffer

\* if shouldFlush { go s.flushBuffer() }
BufferSpawn(e) ==
    /\ Alive
    /\ subPc[e] = "spawn"
    /\ subPc' = [subPc EXCEPT ![e] = "done"]
    /\ flushPc' = [flushPc EXCEPT ![HwTask(e)] = "start"]
    /\ UNCHANGED <<buffer, bufferMu, flushEntries, created, store, failedWrites,
                   tickPending, tickerStopped>>
    /\ UNCHANGED mainVars
    /\ UNCHANGED notBuffer

(***************************************************************************)
(* LogService.flushBuffer                                                  *)
(***************************************************************************)
FlushLockNoMutex(t) ==
    /\ Alive
    /\ flushPc[t] = "start"
    /\ flushPc' = [flushPc EXCEPT ![t] = "locked"]
    /\ UNCHANGED <<buffer, bufferMu, subPc, flushEntries, created, store, failedWrites,
                   tickPending, tickerStopped>>
    /\ UNCHANGED mainVars
    /\ UNCHANGED notBuffer

\* s.bufferMu.Lock() in flushBuffer.
FlushLock(t) ==
    /\ Alive
    /\ flushPc[t] = "start"
    /\ bufferMu = NoHolder
    /\ bufferMu' = t
    /\ flushPc' = [flushPc EXCEPT ![t] = "locked"]
    /\ UNCHANGED <<buffer, subPc, flushEntries, created, store, failedWrites,
                   tickPending, tickerStopped>>
    /\ UNCHANGED mainVars
    /\ UNCHANGED notBuffer

\* The position a flushBuffer call returns to: the timer goroutine loops,
\* the others are finished.
FlushReturnPc(t) == IF t = TimerTask THEN "idle" ELSE "done"

\* A flushBuffer without the test for an empty buffer.
FlushTakeAlways(t) ==
    /\ Alive
    /\ flushPc[t] = "locked"
    /\ flushEntries' = [flushEntries EXCEPT ![t] = buffer]
    /\ flushPc' = [flushPc EXCEPT ![t] = "taken"]
    /\ UNCHANGED <<buffer, bufferMu, subPc, created, store, failedWrites, tickPending,
                   tickerStopped>>
    /\ UNCHANGED mainVars
    /\ UNCHANGED notBuffer

\* if len(s.buffer) == 0 { Unlock; return }; entries := s.buffer
FlushTake(t) ==
    /\ Alive
    /\ flushPc[t] = "locked"
    /\ IF Len(buffer) = 0
         THEN /\ bufferMu' = NoHolder
              /\ flushPc' = [flushPc EXCEPT ![t] = FlushReturnPc(t)]
              /\ UNCHANGED flushEntries
         ELSE /\ flushEntries' = [flushEntries EXCEPT ![t] = buffer]
              /\ flushPc' = [flushPc EXCEPT ![t] = "taken"]
              /\ UNCHANGED bufferMu
    /\ earlyFlushes' = IF Len(buffer) = 0 THEN earlyFlushes \ {t} ELSE earlyFlushes
    /\ UNCHANGED <<buffer, subPc, created, store, failedWrites, tickPending,
                   tickerStopped>>
    /\ UNCHANGED <<mainPc, cleanupPc, redisClosed, dbClosed, closeSnapshot, lateSubmit,
                   lateStarts>>
    /\ UNCHANGED notBuffer

\* A flushBuffer that would keep the mutex during the store write.
FlushResetHoldingLock(t) ==
    /\ Alive
    /\ flushPc[t] = "taken"
    /\ buffer' = <<>>
    /\ flushPc' = [flushPc EXCEPT ![t] = "unlocked"]
    /\ UNCHANGED <<bufferMu, subPc, flushEntries, created, store, failedWrites, tickPending,
                   tickerStopped>>
    /\ UNCHANGED mainVars
    /\ UNCHANGED notBuffer

\* s.buffer = make([]models.LogEntry, 0, 1000); s.bufferMu.Unlock()
FlushReset(t) ==
    /\ Alive
    /\ flushPc[t] = "taken"
    /\ buffer' = <<>>
    /\ bufferMu' = NoHolder
    /\ flushPc' = [flushPc EXCEPT ![t] = "unlocked"]
    /\ UNCHANGED <<subPc, flushEntries, created, store, failedWrites, tickPending,
                   tickerStopped>>
    /\ UNCHANGED mainVars
    /\ UNCHANGED notBuffer

\* The call s.logRepo.CreateBatch(ctx, entries): the batch is handed to the store.
FlushCall(t) ==
    /\ Alive
    /\ flushPc[t] = "unlocked"
    /\ created' = Append(created, flushEntries[t])
    /\ flushPc' = [flushPc EXCEPT ![t] = "writing"]
    /\ UNCHANGED <<buffer, bufferMu, subPc, flushEntries, store, failedWrites,
                   tickPending, tickerStopped>>
    /\ UNCHANGED mainVars
    /\ UNCHANGED notBuffer

\* A flushBuffer that would put a failed batch back into the buffer.
FlushWrittenRebuffering(t, ok) ==
    /\ Alive
    /\ flushPc[t] = "writing"
    /\ bufferMu = NoHolder
    /\ ok => ~dbClosed
    /\ IF ok
         THEN store' = store \cup SeqToSet(flushEntries[t]) /\ UNCHANGED <<failedWrites, buffer>>
         ELSE /\ failedWrites' = failedWrites \cup {flushEntries[t]}
              /\ buffer' = flushEntries[t] \o buffer
              /\ UNCHANGED store
    /\ flushEntries' = [flushEntries EXCEPT ![t] = <<>>]
    /\ flushPc' = [flushPc EXCEPT ![t] = FlushReturnPc(t)]
    /\ earlyFlushes' = earlyFlushes \ {t}
    /\ UNCHANGED <<bufferMu, subPc, created, tickPending, tickerStopped>>
    /\ UNCHANGED <<mainPc, cleanupPc, redisClosed, dbClosed, closeSnapshot, lateSubmit,
                   lateStarts>>
    /\ UNCHANGED notBuffer

\* CreateBatch returns: the batch is durable, or the error is printed and the
\* batch dropped.  A write on a closed database connection fails.
FlushWritten(t, ok) ==
    /\ Alive
    /\ flushPc[t] = "writing"
    /\ ok => ~dbClosed
    /\ IF ok
         THEN store' = store \cup SeqToSet(flushEntries[t]) /\ UNCHANGED failedWrites
         ELSE failedWrites' = failedWrites \cup {flushEntries[t]} /\ UNCHANGED store
    /\ flushEntries' = [flushEntries EXCEPT ![t] = <<>>]
    /\ flushPc' = [flushPc EXCEPT ![t] = FlushReturnPc(t)]
    /\ earlyFlushes' = earlyFlushes \ {t}
    /\ UNCHANGED <<buffer, bufferMu, subPc, created, tickPending, tickerStopped>>
    /\ UNCHANGED <<mainPc, cleanupPc, redisClosed, dbClosed, closeSnapshot, lateSubmit,
                   lateStarts>>
    /\ UNCHANGED notBuffer

(***************************************************************************)
(* The flush ticker and LogService.backgroundFlush                         *)
(***************************************************************************)
\* The runtime sends a tick on flushTicker.C every 5 seconds until Stop.
\* The channel holds one tick; a tick that finds it full is dropped.
TimerTick ==
    /\ Alive
    /\ ~tickerStopped
    /\ ~tickPending
    /\ tickPending' = TRUE
    /\ UNCHANGED <<buffer, bufferMu, subPc, flushPc, flushEntries, created, store,
                   failedWrites, tickerStopped>>
    /\ UNCHANGED mainVars
    /\ UNCHANGED notBuffer

\* Shutdown has passed the point where Close() stops the flush ticker.
TimersPhasePassed == mainPc \notin {"running", "signalled"}

\* A backgroundFlush that would flush only a full buffer.
TimerReceiveIfFull ==
    /\ Alive
    /\ tickPending
    /\ flushPc[TimerTask] = "idle"
    /\ tickPending' = FALSE
    /\ flushPc' = [flushPc EXCEPT ![TimerTask] =
                      IF Len(buffer) >= HighWater THEN "start" ELSE "idle"]
    /\ lateStarts' = IF TimersPhasePassed THEN lateStarts \cup {"flush"} ELSE lateStarts
    /\ UNCHANGED <<buffer, bufferMu, subPc, flushEntries, created, store, failedWrites,
                   tickerStopped>>
    /\ UNCHANGED <<mainPc, cleanupPc, redisClosed, dbClosed, closeSnapshot, lateSubmit, earlyFlushes>>
    /\ UNCHANGED notBuffer

\* for range s.flushTicker.C { s.flushBuffer() }: the goroutine receives a
\* tick and enters flushBuffer.
TimerReceive ==
    /\ Alive
    /\ tickPending
    /\ flushPc[TimerTask] = "idle"
    /\ tickPending' = FALSE
    /\ flushPc' = [flushPc EXCEPT ![TimerTask] = "start"]
    /\ lateStarts' = IF TimersPhasePassed THEN lateStarts \cup {"flush"} ELSE lateStarts
    /\ UNCHANGED <<buffer, bufferMu, subPc, flushEntries, created, store, failedWrites,
                   tickerStopped>>
    /\ UNCHANGED <<mainPc, cleanupPc, redisClosed, dbClosed, closeSnapshot, lateSubmit, earlyFlushes>>
    /\ UNCHANGED notBuffer

(***************************************************************************)
(* main: graceful shutdown, and LogService.Close                           *)
(***************************************************************************)
\* <-quit returns: SIGINT or SIGTERM has arrived.
MainSignal ==
    /\ mainPc = "running"
    /\ mainPc' = "signalled"
    /\ UNCHANGED bufferVars
    /\ UNCHANGED <<cleanupPc, redisClosed, dbClosed, closeSnapshot, lateSubmit, lateStarts, earlyFlushes>>
    /\ UNCHANGED notBuffer

\* logService.Close(): s.flushTicker.Stop(), then the call of s.flushBuffer().
\* Stop sends no further tick; whether a tick already in the channel can still
\* be received depends on the Go version the module is built for, so both
\* outcomes are possible.
CloseStop ==
    /\ mainPc = "signalled"
    /\ mainPc' = "closing"
    /\ tickerStopped' = TRUE
    /\ tickPending' \in {tickPending, FALSE}
    /\ flushPc' = [flushPc EXCEPT ![CloseTask] = "start"]
    /\ closeSnapshot' = buffer
    /\ lateSubmit' = (\E e \in Entries : subPc[e] \in {"locked", "spawn"})
    /\ UNCHANGED <<buffer, bufferMu, subPc, flushEntries, created, store, failedWrites>>
    /\ earlyFlushes' = {t \in FlushTasks \ {CloseTask} : flushPc[t] \notin {"idle", "done"}}
    /\ UNCHANGED <<cleanupPc, redisClosed, dbClosed, lateStarts>>
    /\ UNCHANGED notBuffer

\* s.flushBuffer() has returned to Close, and Close returns to main.
CloseReturn ==
    /\ mainPc = "closing"
    /\ flushPc[CloseTask] = "done"
    /\ mainPc' = "app_shutdown"
    /\ UNCHANGED bufferVars
    /\ UNCHANGED <<cleanupPc, redisClosed, dbClosed, closeSnapshot, lateSubmit, lateStarts, earlyFlushes>>
    /\ UNCHANGED notBuffer

\* app.ShutdownWithContext(ctx)
AppShutdown ==
    /\ mainPc = "app_shutdown"
    /\ mainPc' = "redis_close"
    /\ UNCHANGED bufferVars
    /\ UNCHANGED <<cleanupPc, redisClosed, dbClosed, closeSnapshot, lateSubmit, lateStarts, earlyFlushes>>
    /\ UNCHANGED notBuffer

\* redisClient.Close()
RedisClose ==
    /\ mainPc = "redis_close"
    /\ mainPc' = "db_close"
    /\ redisClosed' = TRUE
    /\ UNCHANGED bufferVars
    /\ UNCHANGED <<cleanupPc, dbClosed, closeSnapshot, lateSubmit, lateStarts, earlyFlushes>>
    /\ UNCHANGED notBuffer

\* sqlDB.Close()
DbClose ==
    /\ mainPc = "db_close"
    /\ mainPc' = "exiting"
    /\ dbClosed' = TRUE
    /\ UNCHANGED bufferVars
    /\ UNCHANGED <<cleanupPc, redisClosed, closeSnapshot, lateSubmit, lateStarts, earlyFlushes>>
    /\ UNCHANGED notBuffer

\* main returns: the process exits and every goroutine ends with it.
MainExit ==
    /\ mainPc = "exiting"
    /\ mainPc' = "stopped"
    /\ UNCHANGED bufferVars
    /\ UNCHANGED <<cleanupPc, redisClosed, dbClosed, closeSnapshot, lateSubmit, lateStarts, earlyFlushes>>
    /\ UNCHANGED notBuffer

(***************************************************************************)
(* startCleanupScheduler                                                   *)
(***************************************************************************)
\* case <-ticker.C: logService.Cleanup(ctx) is called.  The deferred
\* ticker.Stop() is never reached (the loop has no exit and main never signals
\* the goroutine), so ticks arrive as long as the process lives.  The entries
\* of this specification are younger than every cutoff: the run deletes none.
CleanupTick ==
    /\ Alive
    /\ cleanupPc = "idle"
    /\ cleanupPc' = "running"
    /\ lateStarts' = IF TimersPhasePassed THEN lateStarts \cup {"cleanup"} ELSE lateStarts
    /\ UNCHANGED bufferVars
    /\ UNCHANGED <<mainPc, redisClosed, dbClosed, closeSnapshot, lateSubmit, earlyFlushes>>
    /\ UNCHANGED notBuffer

\* Cleanup returns; cancel(); back to the select.
CleanupReturn ==
    /\ Alive
    /\ cleanupPc = "running"
    /\ cleanupPc' = "idle"
    /\ UNCHANGED bufferVars
    /\ UNCHANGED <<mainPc, redisClosed, dbClosed, closeSnapshot, lateSubmit, lateStarts, earlyFlushes>>
    /\ UNCHANGED notBuffer

(***************************************************************************)
(* Specification of the ingestion buffer and the process lifecycle.        *)
(***************************************************************************)
NextBuffer ==
    \/ \E e \in Entries : BufferLock(e)
    \/ \E e \in Entries : BufferAppend(e)
    \/ \E e \in Entries : BufferSpawn(e)
    \/ \E t \in FlushTasks : FlushLock(t)
    \/ \E t \in FlushTasks : FlushTake(t)
    \/ \E t \in FlushTasks : FlushReset(t)
    \/ \E t \in FlushTasks : FlushCall(t)
    \/ \E t \in FlushTasks, ok \in BOOLEAN : FlushWritten(t, ok)
    \/ TimerTick
    \/ TimerReceive
    \/ MainSignal
    \/ CloseStop
    \/ CloseReturn
    \/ AppShutdown
    \/ RedisClose
    \/ DbClose
    \/ MainExit
    \/ CleanupTick
    \/ CleanupReturn

SpecBuffer == Init /\ [][NextBuffer]_vars

(***************************************************************************)
(* Claims about the ingestion buffer and shutdown (under SpecBuffer).      *)
(***************************************************************************)
\* BufferLog(e) has appended e (the append under the mutex is complete).
Submitted(e) == subPc[e] \in {"spawn", "done"}

\* A flushBuffer call holds a swapped-out batch that it has not yet passed to
\* CreateBatch.
HoldsBatch(t) == flushPc[t] = "unlocked"

\* The number of places entry e is in: the buffer, a swapped-out batch about
\* to be handed to CreateBatch, or a batch that was handed to CreateBatch.
Places(e) ==
    Count(buffer, e)
    + Cardinality({t \in FlushTasks : HoldsBatch(t) /\ e \in SeqToSet(flushEntries[t])})
    + Cardinality({i \in 1..Len(created) : e \in SeqToSet(created[i])})

\* C1: for every interleaving of concurrent BufferLog calls with flushes
\* (timer, high-water, Close), each submitted entry is in exactly one place:
\* the buffer or exactly one batch handed (or about to be handed) to
\* CreateBatch, where it occurs once; an entry not yet appended is in none.
C1_ExactlyOnePlace ==
    /\ \A e \in Entries : Places(e) = (IF Submitted(e) THEN 1 ELSE 0)
    /\ \A i \in 1..Len(created) : \A e \in Entries : Count(created[i], e) <= 1

\* C1 witness: submits raced with flushes, so that two different batches
\* were handed to CreateBatch and a BufferLog appended while a write was in
\* progress.
C1_Witness ==
    /\ Len(created) = 2
    /\ \A e \in Entries : Submitted(e)
    /\ \E t \in FlushTasks : flushPc[t] = "writing"

\* Close() has returned to main.
CloseReturned == mainPc \in {"app_shutdown", "redis_close", "db_close", "exiting", "stopped"}

\* Entry e has been passed to the store's batched create.
Handed(e) == \E i \in 1..Len(created) : e \in SeqToSet(created[i])

\* C5: when Close() has returned, with no BufferLog concurrent with or after
\* it, the buffer is empty and every entry that was in the buffer when
\* Close() was called has been passed to CreateBatch.
C5_CloseDrains ==
    (CloseReturned /\ ~lateSubmit) =>
        /\ buffer = <<>>
        /\ \A e \in SeqToSet(closeSnapshot) : Handed(e)

\* C6: a flush started before Close() was called has completed its store
\* write by the time Close() returns: Close() has not returned while such a
\* flush still holds a batch whose write has not completed.
C6_EarlierFlushAwaited ==
    CloseReturned =>
        \A t \in earlyFlushes : flushPc[t] \notin {"taken", "unlocked", "writing"}

\* C7: shutdown stops the background timers, awaits the final flush, and only
\* then releases the cache and store connections; no timer-driven flush and
\* no timer-driven cleanup starts once shutdown has stopped the timers.
C7_ShutdownOrder ==
    /\ TimersPhasePassed => tickerStopped
    /\ (redisClosed \/ dbClosed) => flushPc[CloseTask] = "done"
    /\ lateStarts = {}

(***************************************************************************)
(* The wall clock                                                          *)
(***************************************************************************)
ClockAdvance(d) ==
    /\ now + d <= MaxClock
    /\ now' = now + d
    /\ UNCHANGED <<today, bufferVars, mainVars, alertVars, retVars, queryVars>>

(***************************************************************************)
(* Alert rules (AlertService / AlertRepository)                            *)
(***************************************************************************)
\* The match predicates a rule can carry (LogAlert.Filter, a JSON document
\* parsed into a LogFilter): Valid is FALSE for a document json.Unmarshal
\* rejects; "" and 0 are the zero values of an unspecified field.
AlertFilters ==
    { [Valid |-> TRUE, ServiceName |-> "", Level |-> "", TenantID |-> 0, Other |-> {}],
      [Valid |-> TRUE, ServiceName |-> "", Level |-> "ERROR", TenantID |-> 0, Other |-> {}],
      [Valid |-> FALSE, ServiceName |-> "", Level |-> "", TenantID |-> 0, Other |-> {}] }

\* The levels of the entries ingested in the alert specification.
IngestLevels == {"INFO", "ERROR"}

\* AlertService.CreateAlert -> AlertRepository.Create: a new enabled rule
\* that has never triggered.
CreateAlert(r, f) ==
    /\ \A a \in alerts : a.ID # r
    /\ alerts' = alerts \cup {[ID |-> r, Enabled |-> TRUE, Filter |-> f,
                               LastTriggered |-> NoTime]}
    /\ UNCHANGED <<ingestPc, ingestEntry, ingestResult, evalPc, evalTodo, notifications,
                   updateFailed>>
    /\ UNCHANGED <<bufferVars, mainVars, clockVars, retVars, queryVars>>
    /\ UNCHANGED adminVars
    /\ UNCHANGED batchVars
    /\ UNCHANGED matchVars
    /\ UNCHANGED stampVars
    /\ UNCHANGED keyVars
    /\ UNCHANGED callVars
    /\ UNCHANGED evalFailed

\* AlertRepository.FindEnabled: WHERE enabled = true.
FindEnabled == {a \in alerts : a.Enabled}

\* A matchesAlert that would also honour the filter's minimum level.
matchesAlertMinLevel(entry, alert) ==
    LET filter == alert.Filter IN
    IF ~filter.Valid THEN FALSE
    ELSE IF filter.ServiceName # "" /\ filter.ServiceName # entry.ServiceName THEN FALSE
    ELSE IF filter.Level # "" /\ filter.Level # entry.Level THEN FALSE
    ELSE IF filter.TenantID # 0 /\ filter.TenantID # entry.TenantID THEN FALSE
    ELSE IF "min_level" \in filter.Other /\ entry.Level = "INFO" THEN FALSE
    ELSE TRUE

\* LogService.matchesAlert
matchesAlert(entry, alert) ==
    LET filter == alert.Filter IN
    IF ~filter.Valid THEN FALSE
    ELSE IF filter.ServiceName # "" /\ filter.ServiceName # entry.ServiceName THEN FALSE
    ELSE IF filter.Level # "" /\ filter.Level # entry.Level THEN FALSE
    ELSE IF filter.TenantID # 0 /\ filter.TenantID # entry.TenantID THEN FALSE
    ELSE TRUE

\* A triggerAlert without a rate limit.
RateLimitedNever(alert) == FALSE

\* The rate limit of triggerAlert: the trigger is dropped when the loaded
\* rule's LastTriggered is set and time.Since(*alert.LastTriggered) < time.Minute.
RateLimited(alert) ==
    alert.LastTriggered # NoTime /\ now - alert.LastTriggered < Minute

\* AlertRepository.UpdateLastTriggered: UPDATE ... SET last_triggered = NOW()
\* WHERE id = ?.
UpdateLastTriggered(id) ==
    {IF a.ID = id THEN [a EXCEPT !.LastTriggered = now] ELSE a : a \in alerts}

(***************************************************************************)
(* LogService.IngestSingle and LogService.checkAlerts                      *)
(***************************************************************************)
\* IngestSingle up to `go s.checkAlerts(context.Background(), *entry)`.
IngestSingleStart(e, lvl) ==
    /\ ingestPc[e] = "idle"
    /\ ingestPc' = [ingestPc EXCEPT ![e] = "create"]
    /\ ingestEntry' = [ingestEntry EXCEPT ![e] =
                          [Level |-> lvl, ServiceName |-> "api", TenantID |-> 1]]
    /\ evalPc' = [evalPc EXCEPT ![e] = "load"]
    /\ UNCHANGED <<alerts, ingestResult, evalTodo, notifications, updateFailed>>
    /\ UNCHANGED <<bufferVars, mainVars, clockVars, retVars, queryVars>>
    /\ UNCHANGED adminVars
    /\ evalStarted' = evalStarted \cup {e}
    /\ UNCHANGED batchCall
    /\ UNCHANGED matchVars
    /\ UNCHANGED stampVars
    /\ UNCHANGED keyVars
    /\ UNCHANGED callVars
    /\ UNCHANGED evalFailed

\* An IngestSingle that would try the store again after an error.
IngestSingleCreateRetrying(e, ok) ==
    /\ ingestPc[e] = "create"
    /\ ingestPc' = [ingestPc EXCEPT ![e] = IF ok THEN "done" ELSE "create"]
    /\ ingestResult' = [ingestResult EXCEPT ![e] = IF ok THEN "ok" ELSE "none"]
    /\ store' = IF ok THEN store \cup {e} ELSE store
    /\ UNCHANGED <<alerts, ingestEntry, evalPc, evalTodo, notifications, updateFailed>>
    /\ UNCHANGED <<bufferOnly, mainVars, clockVars, retVars, queryVars>>
    /\ UNCHANGED adminVars
    /\ UNCHANGED batchVars
    /\ UNCHANGED matchVars
    /\ UNCHANGED stampVars
    /\ UNCHANGED keyVars
    /\ UNCHANGED callVars
    /\ UNCHANGED evalFailed

\* An IngestSingle that would join its evaluation before writing.
IngestSingleCreateAwaiting(e, ok) ==
    /\ ingestPc[e] = "create"
    /\ evalPc[e] = "done"
    /\ ingestPc' = [ingestPc EXCEPT ![e] = "done"]
    /\ ingestResult' = [ingestResult EXCEPT ![e] = IF ok THEN "ok" ELSE "error"]
    /\ store' = IF ok THEN store \cup {e} ELSE store
    /\ UNCHANGED <<alerts, ingestEntry, evalPc, evalTodo, notifications, updateFailed>>
    /\ UNCHANGED <<bufferOnly, mainVars, clockVars, retVars, queryVars>>
    /\ UNCHANGED adminVars
    /\ UNCHANGED batchVars
    /\ UNCHANGED matchVars
    /\ UNCHANGED stampVars
    /\ UNCHANGED keyVars
    /\ UNCHANGED callVars
    /\ UNCHANGED evalFailed

\* An IngestSingle that would call its evaluation off when the write fails.
IngestSingleCreateCancelling(e, ok) ==
    /\ ingestPc[e] = "create"
    /\ ingestPc' = [ingestPc EXCEPT ![e] = "done"]
    /\ ingestResult' = [ingestResult EXCEPT ![e] = IF ok THEN "ok" ELSE "error"]
    /\ store' = IF ok THEN store \cup {e} ELSE store
    /\ evalPc' = IF ok THEN evalPc ELSE [evalPc EXCEPT ![e] = "done"]
    /\ evalTodo' = IF ok THEN evalTodo ELSE [evalTodo EXCEPT ![e] = {}]
    /\ UNCHANGED <<alerts, ingestEntry, notifications, updateFailed>>
    /\ UNCHANGED <<bufferOnly, mainVars, clockVars, retVars, queryVars>>
    /\ UNCHANGED adminVars
    /\ UNCHANGED batchVars
    /\ UNCHANGED matchVars
    /\ UNCHANGED stampVars
    /\ UNCHANGED keyVars
    /\ UNCHANGED callVars
    /\ UNCHANGED evalFailed

\* return s.logRepo.Create(ctx, entry)
IngestSingleCreate(e, ok) ==
    /\ ingestPc[e] = "create"
    /\ ingestPc' = [ingestPc EXCEPT ![e] = "done"]
    /\ ingestResult' = [ingestResult EXCEPT ![e] = IF ok THEN "ok" ELSE "error"]
    /\ store' = IF ok THEN store \cup {e} ELSE store
    /\ UNCHANGED <<alerts, ingestEntry, evalPc, evalTodo, notifications, updateFailed>>
    /\ UNCHANGED <<bufferOnly, mainVars, clockVars, retVars, queryVars>>
    /\ UNCHANGED adminVars
    /\ UNCHANGED batchVars
    /\ UNCHANGED matchVars
    /\ UNCHANGED stampVars
    /\ UNCHANGED keyVars
    /\ UNCHANGED callVars
    /\ UNCHANGED evalFailed

\* alerts, err := s.alertRepo.FindEnabled(ctx); if err != nil { return }
EvalLoad(e, ok) ==
    /\ evalPc[e] = "load"
    /\ IF ok /\ FindEnabled # {}
         THEN /\ evalTodo' = [evalTodo EXCEPT ![e] = FindEnabled]
              /\ evalPc' = [evalPc EXCEPT ![e] = "loop"]
         ELSE /\ evalPc' = [evalPc EXCEPT ![e] = "done"]
              /\ UNCHANGED evalTodo
    /\ UNCHANGED <<alerts, ingestPc, ingestEntry, ingestResult, notifications, updateFailed>>
    /\ UNCHANGED <<bufferVars, mainVars, clockVars, retVars, queryVars>>
    /\ UNCHANGED adminVars
    /\ UNCHANGED batchVars
    /\ UNCHANGED matchVars
    /\ UNCHANGED stampVars
    /\ UNCHANGED keyVars
    /\ UNCHANGED callVars
    /\ UNCHANGED evalFailed

\* The entry the checkAlerts call of task e was given.
EvalEntry(e) == IF e = BatchTask THEN BatchId(batchIdx) ELSE e

\* The enabled flag the table holds for rule id right now.
StoredEnabled(id) == \E a \in alerts : a.ID = id /\ a.Enabled

\* A triggerAlert that would return when UpdateLastTriggered fails.
triggerAlertOnlyIfStored(e, alert, ok) ==
    IF RateLimited(alert) \/ ~ok
      THEN /\ updateFailed' = (updateFailed \/ (~RateLimited(alert) /\ ~ok))
           /\ UNCHANGED <<alerts, notifications>>
      ELSE /\ alerts' = UpdateLastTriggered(alert.ID)
           /\ UNCHANGED updateFailed
           /\ notifications' = Append(notifications,
                                      [Rule |-> alert.ID, At |-> now, Entry |-> EvalEntry(e),
                                       Enabled |-> StoredEnabled(alert.ID)])

\* LogService.triggerAlert for a loaded rule: the rate limit, then
\* UpdateLastTriggered (its error is ignored), then the notification.
triggerAlert(e, alert, ok) ==
    IF RateLimited(alert)
      THEN UNCHANGED <<alerts, notifications, updateFailed>>
      ELSE /\ alerts' = IF ok THEN UpdateLastTriggered(alert.ID) ELSE alerts
           /\ updateFailed' = (updateFailed \/ ~ok)
           /\ notifications' = Append(notifications,
                                      [Rule |-> alert.ID, At |-> now, Entry |-> EvalEntry(e),
                                       Enabled |-> StoredEnabled(alert.ID)])

\* One iteration of `for _, alert := range alerts` in checkAlerts.  The rows
\* come back in the order the database chose.
EvalRule(e, alert, ok) ==
    /\ evalPc[e] = "loop"
    /\ alert \in evalTodo[e]
    /\ IF matchesAlert(ingestEntry[e], alert)
         THEN triggerAlert(e, alert, ok)
         ELSE UNCHANGED <<alerts, notifications, updateFailed>>
    /\ evalTodo' = [evalTodo EXCEPT ![e] = @ \ {alert}]
    /\ evalPc' = [evalPc EXCEPT ![e] = IF evalTodo[e] = {alert} THEN "done" ELSE "loop"]
    /\ UNCHANGED <<ingestPc, ingestEntry, ingestResult>>
    /\ UNCHANGED <<bufferVars, mainVars, clockVars, retVars, queryVars>>
    /\ UNCHANGED adminVars
    /\ UNCHANGED batchVars
    /\ UNCHANGED matchVars
    /\ UNCHANGED stampVars
    /\ UNCHANGED keyVars
    /\ UNCHANGED callVars
    /\ evalFailed' = IF evalTodo[e] = {alert} THEN evalFailed \ {e}
                     ELSE IF ~alert.Filter.Valid THEN evalFailed \cup {e}
                     ELSE evalFailed

NextAlert ==
    \/ \E d \in ClockSteps : ClockAdvance(d)
    \/ \E r \in Rules, f \in AlertFilters : CreateAlert(r, f)
    \/ \E e \in IngestIds, lvl \in IngestLevels : IngestSingleStart(e, lvl)
    \/ \E e \in IngestIds, ok \in BOOLEAN : IngestSingleCreate(e, ok)
    \/ \E e \in IngestIds, ok \in BOOLEAN : EvalLoad(e, ok)
    \/ \E e \in IngestIds, ok \in BOOLEAN : \E alert \in evalTodo[e] : EvalRule(e, alert, ok)

SpecAlert == Init /\ [][NextAlert]_vars

(***************************************************************************)
(* Claims about the alert evaluator (under SpecAlert).                     *)
(***************************************************************************)
\* C2: for every enabled rule at most one trigger (notification) occurs in
\* any 60-second window, for any number of matching entries and any
\* interleaving of their evaluations.  Stated for the runs in which every
\* last_triggered update succeeded.
C2_OneTriggerPerMinute ==
    ~updateFailed =>
        \A i, j \in 1..Len(notifications) :
            (i < j /\ notifications[i].Rule = notifications[j].Rule)
                => notifications[j].At - notifications[i].At >= Minute

(***************************************************************************)
(* Retention: policies, rows and LogService.Cleanup                        *)
(***************************************************************************)
\* RetentionService.CreatePolicy -> RetentionRepository.Create.  tenant_id
\* carries a unique index: a second policy for the tenant is rejected.
CreatePolicy(t, days) ==
    /\ \A p \in policies : p.TenantID # t
    /\ policies' = policies \cup {[TenantID |-> t, RetentionDays |-> days]}
    /\ UNCHANGED <<logRows, rowsInserted, cleanPc, cleanTodo, cleanPolicies, cleanRows, cleanAllOk,
                   cleanResult, deletions, cleanCalls>>
    /\ UNCHANGED <<bufferVars, mainVars, clockVars, alertVars, queryVars>>

InsertRowInvalidating(t, age) ==
    /\ rowsInserted < MaxRows
    /\ rowsInserted' = rowsInserted + 1
    /\ logRows' = logRows \cup {[id |-> rowsInserted + 1, tenant |-> t, ts |-> today - age]}
    /\ cache' = [k \in CacheKeys |-> NoCacheEntry]
    /\ UNCHANGED <<policies, cleanPc, cleanTodo, cleanPolicies, cleanRows, cleanAllOk,
                   cleanResult, deletions, cleanCalls>>
    /\ UNCHANGED <<redis, qPc, qFilter, qStored, qResult, qSeen, qSeenLive, qTrouble,
                   qStoredAt, qServedAge, storeQueries, setCalls>>
    /\ UNCHANGED <<bufferVars, mainVars, clockVars, alertVars>>

\* LogRepository.Create of an entry of tenant t whose timestamp lies `age`
\* days in the past.  The row gets a fresh identifier.
InsertRow(t, age) ==
    /\ rowsInserted < MaxRows
    /\ rowsInserted' = rowsInserted + 1
    /\ logRows' = logRows \cup {[id |-> rowsInserted + 1, tenant |-> t, ts |-> today - age]}
    /\ UNCHANGED <<policies, cleanPc, cleanTodo, cleanPolicies, cleanRows, cleanAllOk,
                   cleanResult, deletions, cleanCalls>>
    /\ UNCHANGED <<bufferVars, mainVars, clockVars, alertVars, queryVars>>

\* A day passes.  One Cleanup call runs under a one-hour deadline, so the day
\* clock is read as constant while a call is in progress.
DayAdvance ==
    /\ cleanPc = "idle"
    /\ today < MaxDays
    /\ today' = today + 1
    /\ UNCHANGED <<now, bufferVars, mainVars, alertVars, retVars, queryVars>>

\* A DeleteOlderThan that would delete one row per call, the oldest id first.
DeleteOlderThanOneRow(tenant, before) ==
    LET old == {r \in logRows : r.ts < before /\ (tenant # 0 => r.tenant = tenant)}
    IN {r \in old : \A q \in old : r.id <= q.id}

\* LogRepository.DeleteOlderThan(tenantID, before): the rows it deletes.
\* tenant = 0 stands for the nil tenantID: no tenant condition is added.
DeleteOlderThan(tenant, before) ==
    {r \in logRows : r.ts < before /\ (tenant # 0 => r.tenant = tenant)}

\* policies, err := s.retentionRepo.FindAll(ctx); if err != nil { return err }
CleanupStart(ok) ==
    /\ cleanPc = "idle"
    /\ IF ok
         THEN /\ cleanPc' = "tenants"
              /\ cleanTodo' = policies
              /\ cleanPolicies' = policies
              /\ cleanRows' = logRows
              /\ cleanAllOk' = TRUE
              /\ UNCHANGED cleanResult
         ELSE /\ cleanResult' = "error"
              /\ UNCHANGED <<cleanPc, cleanTodo, cleanPolicies, cleanRows, cleanAllOk>>
    /\ UNCHANGED <<policies, logRows, rowsInserted, deletions, cleanCalls>>
    /\ UNCHANGED <<bufferVars, mainVars, clockVars, alertVars, queryVars>>

\* A Cleanup that would give up at the first tenant deletion that fails.
CleanupTenantAborting(policy, ok) ==
    /\ cleanPc = "tenants"
    /\ policy \in cleanTodo
    /\ LET cutoff == today - policy.RetentionDays
           gone == IF ok THEN DeleteOlderThan(policy.TenantID, cutoff) ELSE {}
       IN /\ logRows' = logRows \ gone
          /\ deletions' = deletions \cup {[row |-> r, pass |-> "tenant"] : r \in gone}
    /\ cleanAllOk' = (cleanAllOk /\ ok)
    /\ cleanCalls' = Append(cleanCalls, [Tenant |-> policy.TenantID, Ok |-> ok])
    /\ cleanTodo' = cleanTodo \ {policy}
    /\ cleanPc' = IF ok THEN "tenants" ELSE "done"
    /\ cleanResult' = IF ok THEN cleanResult ELSE "error"
    /\ UNCHANGED <<policies, rowsInserted, cleanPolicies, cleanRows>>
    /\ UNCHANGED <<bufferVars, mainVars, clockVars, alertVars, queryVars>>

\* One iteration of `for _, policy := range policies`:
\* cutoff := time.Now().AddDate(0, 0, -policy.RetentionDays);
\* DeleteOlderThan(ctx, &policy.TenantID, cutoff); an error is only printed.
CleanupTenant(policy, ok) ==
    /\ cleanPc = "tenants"
    /\ policy \in cleanTodo
    /\ LET cutoff == today - policy.RetentionDays
           gone == IF ok THEN DeleteOlderThan(policy.TenantID, cutoff) ELSE {}
       IN /\ logRows' = logRows \ gone
          /\ deletions' = deletions \cup {[row |-> r, pass |-> "tenant"] : r \in gone}
    /\ cleanAllOk' = (cleanAllOk /\ ok)
    /\ cleanCalls' = Append(cleanCalls, [Tenant |-> policy.TenantID, Ok |-> ok])
    /\ cleanTodo' = cleanTodo \ {policy}
    /\ UNCHANGED <<policies, rowsInserted, cleanPc, cleanPolicies, cleanRows, cleanResult>>
    /\ UNCHANGED <<bufferVars, mainVars, clockVars, alertVars, queryVars>>

\* A Cleanup that would run the default pass only after some tenant policy.
CleanupDefaultIfPolicies(ok) ==
    /\ cleanPc = "tenants"
    /\ cleanTodo = {}
    /\ LET cutoff == today - DefaultRetentionDays
           gone == IF ok /\ cleanPolicies # {} THEN DeleteOlderThan(0, cutoff) ELSE {}
       IN /\ logRows' = logRows \ gone
          /\ deletions' = deletions \cup {[row |-> r, pass |-> "default"] : r \in gone}
    /\ cleanAllOk' = (cleanAllOk /\ ok)
    /\ cleanCalls' = IF cleanPolicies # {} THEN Append(cleanCalls, [Tenant |-> 0, Ok |-> ok])
                     ELSE cleanCalls
    /\ cleanResult' = IF ok THEN "ok" ELSE "error"
    /\ cleanPc' = "done"
    /\ UNCHANGED <<policies, rowsInserted, cleanTodo, cleanPolicies, cleanRows>>
    /\ UNCHANGED <<bufferVars, mainVars, clockVars, alertVars, queryVars>>

\* defaultCutoff := time.Now().AddDate(0, 0, -s.config.Retention.RetentionDays);
\* _, err = s.logRepo.DeleteOlderThan(ctx, nil, defaultCutoff); return err
CleanupDefault(ok) ==
    /\ cleanPc = "tenants"
    /\ cleanTodo = {}
    /\ LET cutoff == today - DefaultRetentionDays
           gone == IF ok THEN DeleteOlderThan(0, cutoff) ELSE {}
       IN /\ logRows' = logRows \ gone
          /\ deletions' = deletions \cup {[row |-> r, pass |-> "default"] : r \in gone}
    /\ cleanAllOk' = (cleanAllOk /\ ok)
    /\ cleanCalls' = Append(cleanCalls, [Tenant |-> 0, Ok |-> ok])
    /\ cleanResult' = IF ok THEN "ok" ELSE "error"
    /\ cleanPc' = "done"
    /\ UNCHANGED <<policies, rowsInserted, cleanTodo, cleanPolicies, cleanRows>>
    /\ UNCHANGED <<bufferVars, mainVars, clockVars, alertVars, queryVars>>

\* Cleanup has returned to its caller; the history of the call is dropped.
CleanupFinish ==
    /\ cleanPc = "done"
    /\ cleanPc' = "idle"
    /\ cleanPolicies' = {}
    /\ cleanRows' = {}
    /\ cleanAllOk' = TRUE
    /\ deletions' = {}
    /\ cleanCalls' = <<>>
    /\ UNCHANGED <<policies, logRows, rowsInserted, cleanTodo, cleanResult>>
    /\ UNCHANGED <<bufferVars, mainVars, clockVars, alertVars, queryVars>>

NextRetention ==
    \/ \E t \in Tenants, days \in RetentionChoices : CreatePolicy(t, days)
    \/ \E t \in Tenants, age \in AgeChoices : InsertRow(t, age)
    \/ DayAdvance
    \/ \E ok \in BOOLEAN : CleanupStart(ok)
    \/ \E ok \in BOOLEAN : \E policy \in cleanTodo : CleanupTenant(policy, ok)
    \/ \E ok \in BOOLEAN : CleanupDefault(ok)
    \/ CleanupFinish

SpecRetention == Init /\ [][NextRetention]_vars

(***************************************************************************)
(* Claims about the retention cleaner (under SpecRetention).               *)
(***************************************************************************)
\* The tenants of the policy set the Cleanup in progress loaded.
PolicyTenants == {p.TenantID : p \in cleanPolicies}

\* The retention window that applies to a tenant under the loaded policy set.
ApplicableDays(t) ==
    IF t \in PolicyTenants
      THEN (CHOOSE p \in cleanPolicies : p.TenantID = t).RetentionDays
      ELSE DefaultRetentionDays

\* C3: the default-retention pass of Cleanup deletes only entries of tenants
\* that are not in the policy set; an entry of a tenant with a policy is
\* deleted by Cleanup only if it is strictly older than that tenant's own
\* cutoff now - retention_days.  Stated for the Cleanup calls whose store
\* calls all succeeded, on the rows present when the call started.
C3_DefaultPassSparesPolicyTenants ==
    (cleanPc = "done" /\ cleanAllOk) =>
        \A d \in deletions :
            d.row \in cleanRows =>
                /\ d.pass = "default" => d.row.tenant \notin PolicyTenants
                /\ d.row.tenant \in PolicyTenants
                      => d.row.ts < today - ApplicableDays(d.row.tenant)

\* C4: after a Cleanup in which every store call succeeded, every entry
\* strictly older than its applicable cutoff (the tenant's policy, or the
\* system default for a tenant without policy) is deleted, and an entry whose
\* timestamp equals its applicable cutoff is retained.
C4_CleanupExact ==
    (cleanPc = "done" /\ cleanAllOk) =>
        \A r \in cleanRows :
            LET cutoff == today - ApplicableDays(r.tenant) IN
            /\ r.ts < cutoff => r \notin logRows
            /\ r.ts = cutoff => r \in logRows

(***************************************************************************)
(* LogRepository.Query                                                     *)
(***************************************************************************)
\* buildQuery: the rows a filter selects (the model's filters carry at most
\* a tenant predicate).
MatchingRows(f) == {r \in logRows : f.TenantID # 0 => r.tenant = f.TenantID}

\* Order("timestamp DESC"): the orders the database may return a set of rows
\* in (rows of equal timestamp come in any order).
DescOrders(S) ==
    {o \in [1..Cardinality(S) -> S] :
        /\ \A i, j \in 1..Cardinality(S) : i # j => o[i] # o[j]
        /\ \A i, j \in 1..Cardinality(S) : i < j => o[i].ts >= o[j].ts}

\* Offset(offset).Limit(pageSize) of LogRepository.Query, with its defaults
\* page < 1 -> 1 and pageSize < 1 or > 1000 -> 100.
PageOf(o, f) ==
    LET page == IF f.Page < 1 THEN 1 ELSE f.Page
        pageSize == IF f.PageSize < 1 \/ f.PageSize > 1000 THEN 100 ELSE f.PageSize
        offset == (page - 1) * pageSize
        last == IF offset + pageSize < Len(o) THEN offset + pageSize ELSE Len(o)
    IN SubSeq(o, offset + 1, last)

\* The LogQueryResult Query builds from what LogRepository.Query returns:
\* entries, total, and the filter's page and page size echoed.
QueryResults(f) ==
    {[Entries |-> PageOf(o, f), TotalCount |-> Cardinality(MatchingRows(f)),
      Page |-> f.Page, PageSize |-> f.PageSize, HasMore |-> FALSE] :
        o \in DescOrders(MatchingRows(f))}

(***************************************************************************)
(* LogService.Query, getCachedResult and cacheResult                       *)
(***************************************************************************)
CacheLiveForever(entry) == entry # NoCacheEntry

\* The cache serves a record until its TTL has run out.
CacheLive(entry) == entry # NoCacheEntry /\ now < entry.Expires

getCachedResultAlwaysMiss(key, readOk) == [Cached |-> NoReturn, Err |-> ~redis]

\* LogService.getCachedResult(ctx, key): (nil, nil) without a cache client;
\* an error when the read fails, the key is absent or expired (redis.Nil) or
\* the payload does not decode; the decoded result otherwise.
getCachedResult(key, readOk) ==
    IF ~redis THEN [Cached |-> NoReturn, Err |-> FALSE]
    ELSE IF ~readOk \/ ~CacheLive(cache[key]) THEN [Cached |-> NoReturn, Err |-> TRUE]
    ELSE LET dec == UnmarshalResult(cache[key].Data)
         IN IF dec.Err THEN [Cached |-> NoReturn, Err |-> TRUE]
            ELSE [Cached |-> OkReturn(dec.Value), Err |-> FALSE]

\* The test `err == nil && cached != nil` of Query.
IsCacheHit(got) == ~got.Err /\ got.Cached # NoReturn

QueryAfterGetFailing(got) ==
    IF got.Err THEN [Pc |-> "done", Result |-> ErrReturn]
    ELSE IF got.Cached # NoReturn THEN [Pc |-> "done", Result |-> got.Cached]
    ELSE [Pc |-> "store", Result |-> NoReturn]

\* What Query does with the outcome of getCachedResult: a hit is returned,
\* anything else (an error included) falls through to the store.
QueryAfterGet(got) ==
    IF IsCacheHit(got) THEN [Pc |-> "done", Result |-> got.Cached]
    ELSE [Pc |-> "store", Result |-> NoReturn]

\* Query is called with filter f.
QueryStart(q, f) ==
    /\ qPc[q] = "idle"
    /\ qPc' = [qPc EXCEPT ![q] = "cache_get"]
    /\ qFilter' = [qFilter EXCEPT ![q] = f]
    /\ UNCHANGED <<redis, cache, qStored, qResult, qSeen, qSeenLive, qTrouble, qStoredAt,
                   qServedAge, storeQueries, setCalls>>
    /\ UNCHANGED <<bufferVars, mainVars, clockVars, alertVars, retVars>>

\* The cache failure a read meets, from what the cache holds and does.
ReadTrouble(key, readOk) ==
    IF ~redis THEN {"absent"}
    ELSE IF ~readOk THEN {"read_error"}
    ELSE IF cache[key].Writer = 0 /\ now < cache[key].Expires THEN {"undecodable"}
    ELSE {}

\* cacheKey := s.buildCacheKey(filter); the cache is tried first, and a hit
\* is returned at once.
QueryCacheGet(q, readOk) ==
    /\ qPc[q] = "cache_get"
    /\ (~redis => readOk)
    /\ LET key == buildCacheKey(qFilter[q])
           got == getCachedResult(key, readOk)
       IN /\ qPc' = [qPc EXCEPT ![q] = QueryAfterGet(got).Pc]
          /\ qResult' = [qResult EXCEPT ![q] = QueryAfterGet(got).Result]
          /\ qSeen' = [qSeen EXCEPT ![q] = IF redis /\ readOk THEN cache[key].Writer
                                                              ELSE NoCacheEntry.Writer]
          /\ qSeenLive' = [qSeenLive EXCEPT ![q] =
                              redis /\ readOk /\ cache[key] # NoCacheEntry
                                    /\ now < cache[key].Expires]
          /\ qTrouble' = [qTrouble EXCEPT ![q] = ReadTrouble(key, readOk)]
          /\ qServedAge' = [qServedAge EXCEPT ![q] =
                               IF QueryAfterGet(got).Pc = "done" /\ cache[key].Writer \in QueryIds
                                 THEN [SinceFetched |-> now - cache[key].Fetched,
                                       SinceWritten |-> now - cache[key].Written]
                                 ELSE NoAge]
    /\ UNCHANGED <<redis, cache, qFilter, qStored, qStoredAt, storeQueries, setCalls>>
    /\ UNCHANGED <<bufferVars, mainVars, clockVars, alertVars, retVars>>

\* entries, total, err := s.logRepo.Query(ctx, filter); if err != nil
\* { return nil, err }
QueryStore(q, ok) ==
    /\ qPc[q] = "store"
    /\ \E result \in QueryResults(qFilter[q]) :
          LET ret == IF ok THEN OkReturn(result) ELSE ErrReturn
          IN /\ qStored' = [qStored EXCEPT ![q] = ret]
             /\ storeQueries' = [storeQueries EXCEPT ![q] = @ + 1]
             /\ IF ok
                  THEN qPc' = [qPc EXCEPT ![q] = "cache_set"] /\ UNCHANGED qResult
                  ELSE /\ qPc' = [qPc EXCEPT ![q] = "done"]
                       /\ qResult' = [qResult EXCEPT ![q] = ErrReturn]
    /\ qStoredAt' = [qStoredAt EXCEPT ![q] = IF ok THEN now ELSE NoTime]
    /\ UNCHANGED <<redis, cache, qFilter, qSeen, qSeenLive, qTrouble, qServedAge, setCalls>>
    /\ UNCHANGED <<bufferVars, mainVars, clockVars, alertVars, retVars>>

\* s.cacheResult(ctx, cacheKey, result, 30*time.Second); return result, nil.
\* cacheResult does nothing without a cache client; the outcome of
\* s.redis.Set is not looked at.
QueryCacheSet(q, setOk) ==
    /\ qPc[q] = "cache_set"
    /\ (~redis => setOk)
    /\ LET key == buildCacheKey(qFilter[q])
           data == MarshalResult(qStored[q].Value)
       IN IF redis
            THEN /\ setCalls' = [setCalls EXCEPT ![q] =
                                    Append(@, [Key |-> key, Data |-> data, TTL |-> CacheTTL])]
                 /\ cache' = IF setOk
                               THEN [cache EXCEPT ![key] = [Data |-> data,
                                                            Expires |-> now + CacheTTL,
                                                            Writer |-> q,
                                                            Fetched |-> qStoredAt[q],
                                                            Written |-> now]]
                               ELSE cache
                 /\ qTrouble' = [qTrouble EXCEPT ![q] =
                                    IF setOk THEN @ ELSE @ \cup {"write_error"}]
            ELSE UNCHANGED <<setCalls, cache, qTrouble>>
    /\ qResult' = [qResult EXCEPT ![q] = qStored[q]]
    /\ qPc' = [qPc EXCEPT ![q] = "done"]
    /\ qStoredAt' = [qStoredAt EXCEPT ![q] = NoTime]
    /\ UNCHANGED <<redis, qFilter, qStored, qSeen, qSeenLive, qServedAge, storeQueries>>
    /\ UNCHANGED <<bufferVars, mainVars, clockVars, alertVars, retVars>>

\* Another writer (another process or another version of the service) stores
\* under key a payload this service cannot decode.
CacheForeignSet(key) ==
    /\ redis
    /\ cache[key] = NoCacheEntry
    /\ cache' = [cache EXCEPT ![key] = [Data |-> Garbage, Expires |-> now + CacheTTL,
                                        Writer |-> 0, Fetched |-> NoTime,
                                        Written |-> now]]
    /\ UNCHANGED <<redis, qPc, qFilter, qStored, qResult, qSeen, qSeenLive, qTrouble,
                   qStoredAt, qServedAge, storeQueries, setCalls>>
    /\ UNCHANGED <<bufferVars, mainVars, clockVars, alertVars, retVars>>

NextQuery ==
    \/ \E d \in ClockSteps : now + d <= QueryHorizon /\ ClockAdvance(d)
    \/ InsertRow(1, 7)
    \/ \E q \in QueryIds, f \in QueryFilters : QueryStart(q, f)
    \/ \E q \in QueryIds, readOk \in BOOLEAN : QueryCacheGet(q, readOk)
    \/ \E q \in QueryIds, ok \in BOOLEAN : QueryStore(q, ok)
    \/ \E q \in QueryIds, setOk \in BOOLEAN : QueryCacheSet(q, setOk)
    \/ \E key \in CacheKeys : CacheForeignSet(key)

SpecQuery == InitQuery /\ [][NextQuery]_vars

(***************************************************************************)
(* The query cache: claims                                                 *)
(***************************************************************************)
QueryDone(q) == qPc[q] = "done"

\* Call q2 read, unexpired and without a cache failure, the record call q1
\* wrote under q2's key.
ServedFrom(q2, q1) ==
    QueryDone(q2) /\ qSeen[q2] = q1 /\ qSeenLive[q2] /\ qTrouble[q2] = {}

\* C8: with the cache available, a query that finds, within its 30 seconds,
\* the record an earlier query with the identical filter wrote is answered
\* from the cache: the pair made one store query in total, and the second
\* result equals the first query's result.
C8_SecondQueryServedFromCache ==
    \A q1, q2 \in QueryIds :
        ServedFrom(q2, q1) =>
            /\ qFilter[q1] = qFilter[q2]
            /\ storeQueries[q1] + storeQueries[q2] = 1
            /\ qResult[q1].Kind = "ok"
            /\ qResult[q2] = qResult[q1]

\* A second query was served, 15 seconds later, a non-empty page the first
\* one cached, although the store has gained a row since.
C8_Witness ==
    \E q1, q2 \in QueryIds :
        /\ ServedFrom(q2, q1)
        /\ qResult[q2].Kind = "ok"
        /\ Len(qResult[q2].Value.Entries) = 1
        /\ qResult[q2].Value.Page = 1
        /\ Cardinality(logRows) = 2

\* C9: a query that met a cache failure (no cache client, a failed read, an
\* undecodable payload, a failed write) made its one store query and
\* returned exactly what the store returned.
C9_CacheFailureNeverFailsQuery ==
    \A q \in QueryIds :
        (QueryDone(q) /\ qTrouble[q] # {}) =>
            /\ storeQueries[q] = 1
            /\ qResult[q] = qStored[q]

\* Every kind of cache failure has been met by a query that returned a
\* result from the store.
C9_Witness ==
    /\ \E q \in QueryIds :
          QueryDone(q) /\ qTrouble[q] = {"read_error", "write_error"} /\ qResult[q].Kind = "ok"
    /\ \E q \in QueryIds :
          QueryDone(q) /\ "undecodable" \in qTrouble[q] /\ qResult[q].Kind = "ok"

\* The other kind: the service runs without a cache client.
C9_WitnessAbsent ==
    \E q \in QueryIds :
        QueryDone(q) /\ qTrouble[q] = {"absent"} /\ qResult[q].Kind = "ok"

\* Call q read a live record written by a Query call: a cache hit.
Hit(q) == qSeenLive[q] /\ qSeen[q] \in QueryIds /\ qTrouble[q] = {}

\* C10: a query that missed the cache made a store query and, with a cache
\* client, issued before returning one Set of the result under its key with
\* a TTL of 30 seconds; the records so written never have more than 30
\* seconds left; and a query that finds an expired record goes to the store.
C10_MissWritesBackWithTTL ==
    /\ \A q \in QueryIds :
          (QueryDone(q) /\ ~Hit(q)) =>
              /\ storeQueries[q] = 1
              /\ (redis /\ qStored[q].Kind = "ok") =>
                     setCalls[q] = <<[Key |-> buildCacheKey(qFilter[q]),
                                      Data |-> MarshalResult(qStored[q].Value),
                                      TTL |-> 30]>>
    /\ \A key \in CacheKeys :
          cache[key].Writer \in QueryIds =>
              /\ key = buildCacheKey(qFilter[cache[key].Writer])
              /\ cache[key].Data = MarshalResult(qStored[cache[key].Writer].Value)
              /\ cache[key].Expires <= now + 30

\* A query found the record of an earlier identical query expired, went to
\* the store and wrote the result back.
C10_Witness ==
    \E q1, q2 \in QueryIds :
        /\ QueryDone(q2) /\ qSeen[q2] = q1 /\ ~qSeenLive[q2]
        /\ storeQueries[q2] = 1
        /\ Len(setCalls[q2]) = 1
        /\ cache[buildCacheKey(qFilter[q2])].Writer = q2

\* Call q returned a result without querying the store.
ServedFromCache(q) == QueryDone(q) /\ storeQueries[q] = 0 /\ qResult[q].Kind = "ok"

\* Every result served from the cache is the result the store returned to a
\* Query call with the same key.
ServedWhatStoreReturned ==
    \A q2 \in QueryIds :
        ServedFromCache(q2) =>
            /\ qSeen[q2] \in QueryIds
            /\ buildCacheKey(qFilter[qSeen[q2]]) = buildCacheKey(qFilter[q2])
            /\ storeQueries[qSeen[q2]] = 1
            /\ qResult[q2] = qStored[qSeen[q2]]

\* Only write-backs of Query touch the records of Query: a record a call wrote
\* is still that record, or the record of another call's write-back, and
\* holds what the store returned to its writer.
OnlyQueryWritesCache ==
    /\ \A q \in QueryIds :
          (QueryDone(q) /\ setCalls[q] # <<>> /\ "write_error" \notin qTrouble[q]) =>
              cache[buildCacheKey(qFilter[q])].Writer \in QueryIds
    /\ \A key \in CacheKeys :
          cache[key].Writer \in QueryIds =>
              /\ cache[key].Data = MarshalResult(qStored[cache[key].Writer].Value)
              /\ cache[key].Expires = cache[key].Written + CacheTTL

\* C11 (as stated): every result served from the cache was returned by the
\* store, for a filter with the identical serialization, at most 30 seconds
\* before it is served; nothing but Query's write-back touches a cache record.
C11_ServedAtMostTTLAfterStoreReturn ==
    /\ ServedWhatStoreReturned
    /\ OnlyQueryWritesCache
    /\ \A q \in QueryIds :
          ServedFromCache(q) => qServedAge[q].SinceFetched <= 30

\* C11 (amended): the 30 seconds run from the write-back, not from the
\* store's return: every result served from the cache was returned by the
\* store for a filter with the identical serialization and was written to the
\* cache less than 30 seconds before it is served; nothing but Query's
\* write-back touches a cache record.
C11_ServedWithinTTLOfWriteBack ==
    /\ ServedWhatStoreReturned
    /\ OnlyQueryWritesCache
    /\ \A q \in QueryIds :
          ServedFromCache(q) =>
              /\ 0 <= qServedAge[q].SinceWritten
              /\ qServedAge[q].SinceWritten < 30

\* A stale result was served: the store has gained a row since it returned
\* the result, which was written back 15 seconds later and served 15 seconds
\* after that.
C11_Witness ==
    \E q \in QueryIds :
        /\ ServedFromCache(q)
        /\ qServedAge[q] = [SinceFetched |-> 30, SinceWritten |-> 15]
        /\ qResult[q].Value.TotalCount < Cardinality(MatchingRows(qFilter[q]))

(***************************************************************************)
(* AlertService.EnableAlert / DisableAlert                                 *)
(***************************************************************************)
\* alert, err := s.repo.FindByID(ctx, id); alert.Enabled = enabled.  The call
\* holds a copy of the whole row.
AdminLoad(r, enabled) ==
    /\ adminPc[r] = "idle"
    /\ \E a \in alerts :
          /\ a.ID = r
          /\ adminRow' = [adminRow EXCEPT ![r] = [a EXCEPT !.Enabled = enabled]]
    /\ adminPc' = [adminPc EXCEPT ![r] = "loaded"]
    /\ UNCHANGED <<alerts, ingestPc, ingestEntry, ingestResult, evalPc, evalTodo,
                   notifications, updateFailed>>
    /\ UNCHANGED <<bufferVars, mainVars, clockVars, retVars, queryVars>>
    /\ UNCHANGED batchVars
    /\ UNCHANGED matchVars
    /\ UNCHANGED stampVars
    /\ UNCHANGED keyVars
    /\ UNCHANGED callVars
    /\ UNCHANGED evalFailed

\* return s.repo.Update(ctx, alert): AlertRepository.Update saves every column
\* of the copy (gorm Save).
AdminSave(r, ok) ==
    /\ adminPc[r] = "loaded"
    /\ alerts' = IF ok THEN {a \in alerts : a.ID # r} \cup {adminRow[r]} ELSE alerts
    /\ adminPc' = [adminPc EXCEPT ![r] = "idle"]
    /\ adminRow' = [adminRow EXCEPT ![r] = NoRule]
    /\ UNCHANGED <<ingestPc, ingestEntry, ingestResult, evalPc, evalTodo, notifications,
                   updateFailed>>
    /\ UNCHANGED <<bufferVars, mainVars, clockVars, retVars, queryVars>>
    /\ UNCHANGED batchVars
    /\ UNCHANGED matchVars
    /\ UNCHANGED stampVars
    /\ UNCHANGED keyVars
    /\ UNCHANGED callVars
    /\ UNCHANGED evalFailed

NextAdmin ==
    \/ \E r \in Rules, f \in AlertFilters : CreateAlert(r, f)
    \/ \E r \in Rules, enabled \in BOOLEAN : AdminLoad(r, enabled)
    \/ \E r \in Rules, ok \in BOOLEAN : AdminSave(r, ok)
    \/ \E e \in IngestIds, lvl \in IngestLevels : IngestSingleStart(e, lvl)
    \/ \E e \in IngestIds, ok \in BOOLEAN : IngestSingleCreate(e, ok)
    \/ \E e \in IngestIds, ok \in BOOLEAN : EvalLoad(e, ok)
    \/ \E e \in IngestIds, ok \in BOOLEAN : \E alert \in evalTodo[e] : EvalRule(e, alert, ok)

SpecAdmin == Init /\ [][NextAdmin]_vars

\* C12: a rule whose enabled flag is false is never triggered: every
\* notification (and the last_triggered update that precedes it) was made
\* while the table held enabled = true for the rule.
C12_DisabledNeverTriggers ==
    \A i \in 1..Len(notifications) : notifications[i].Enabled

(***************************************************************************)
(* LogService.IngestBatch                                                  *)
(***************************************************************************)
\* models.LogLevel.
Levels == {"DEBUG", "INFO", "WARN", "ERROR", "FATAL"}
\* The levels checkAlerts is called for on the batch path.
AlertingLevels == {"ERROR", "FATAL"}

\* The batches ingested: every level occurs in one of them.
BatchChoices == { <<"INFO", "ERROR">>, <<"FATAL", "DEBUG">>, <<"WARN">> }

BatchIds == {BatchId(i) : i \in 1..Len(batchEntries)}

\* IngestBatch up to `go func() { ... }()`.
IngestBatchStart(lvls) ==
    /\ batchPc = "idle"
    /\ batchEntries' = [i \in 1..Len(lvls) |->
                           [Level |-> lvls[i], ServiceName |-> "api", TenantID |-> 1]]
    /\ batchPc' = "create"
    /\ batchLoop' = "loop"
    /\ batchIdx' = 1
    /\ UNCHANGED <<alerts, ingestPc, ingestEntry, ingestResult, evalPc, evalTodo,
                   notifications, updateFailed, adminVars, batchResult, evalStarted>>
    /\ UNCHANGED <<bufferVars, mainVars, clockVars, retVars, queryVars>>
    /\ UNCHANGED matchVars
    /\ UNCHANGED stampVars
    /\ UNCHANGED keyVars
    /\ UNCHANGED callVars
    /\ UNCHANGED evalFailed

\* return s.logRepo.CreateBatch(ctx, entries): one CreateInBatches statement.
IngestBatchCreate(ok) ==
    /\ batchPc = "create"
    /\ batchPc' = "done"
    /\ batchResult' = IF ok THEN "ok" ELSE "error"
    /\ store' = IF ok THEN store \cup BatchIds ELSE store
    /\ UNCHANGED <<alerts, ingestPc, ingestEntry, ingestResult, evalPc, evalTodo,
                   notifications, updateFailed, adminVars, batchEntries, batchLoop,
                   batchIdx, evalStarted>>
    /\ UNCHANGED <<bufferOnly, mainVars, clockVars, retVars, queryVars>>
    /\ UNCHANGED matchVars
    /\ UNCHANGED stampVars
    /\ UNCHANGED keyVars
    /\ UNCHANGED callVars
    /\ UNCHANGED evalFailed

\* A batch goroutine that would call checkAlerts for every entry.
BatchLoopStepAll ==
    /\ batchLoop = "loop"
    /\ IF batchIdx > Len(batchEntries)
         THEN /\ batchLoop' = "done"
              /\ UNCHANGED <<ingestEntry, evalPc, evalStarted, batchIdx>>
         ELSE /\ ingestEntry' = [ingestEntry EXCEPT ![BatchTask] = batchEntries[batchIdx]]
              /\ evalPc' = [evalPc EXCEPT ![BatchTask] = "load"]
              /\ evalStarted' = evalStarted \cup {BatchId(batchIdx)}
              /\ batchLoop' = "eval"
              /\ UNCHANGED batchIdx
    /\ UNCHANGED <<alerts, ingestPc, ingestResult, evalTodo, notifications, updateFailed,
                   adminVars, batchPc, batchEntries, batchResult>>
    /\ UNCHANGED <<bufferVars, mainVars, clockVars, retVars, queryVars>>
    /\ UNCHANGED matchVars
    /\ UNCHANGED stampVars
    /\ UNCHANGED keyVars
    /\ UNCHANGED callVars
    /\ UNCHANGED evalFailed

\* One iteration of `for _, entry := range entries` in the goroutine, up to
\* the call of checkAlerts:
\* if entry.Level == LogLevelError || entry.Level == LogLevelFatal.
BatchLoopStep ==
    /\ batchLoop = "loop"
    /\ IF batchIdx > Len(batchEntries)
         THEN /\ batchLoop' = "done"
              /\ UNCHANGED <<ingestEntry, evalPc, evalStarted, batchIdx>>
         ELSE IF batchEntries[batchIdx].Level \in AlertingLevels
           THEN /\ ingestEntry' = [ingestEntry EXCEPT ![BatchTask] = batchEntries[batchIdx]]
                /\ evalPc' = [evalPc EXCEPT ![BatchTask] = "load"]
                /\ evalStarted' = evalStarted \cup {BatchId(batchIdx)}
                /\ batchLoop' = "eval"
                /\ UNCHANGED batchIdx
           ELSE /\ batchIdx' = batchIdx + 1
                /\ UNCHANGED <<ingestEntry, evalPc, evalStarted, batchLoop>>
    /\ UNCHANGED <<alerts, ingestPc, ingestResult, evalTodo, notifications, updateFailed,
                   adminVars, batchPc, batchEntries, batchResult>>
    /\ UNCHANGED <<bufferVars, mainVars, clockVars, retVars, queryVars>>
    /\ UNCHANGED matchVars
    /\ UNCHANGED stampVars
    /\ UNCHANGED keyVars
    /\ UNCHANGED callVars
    /\ UNCHANGED evalFailed

\* checkAlerts returned to the goroutine: the next entry.
BatchEvalReturn ==
    /\ batchLoop = "eval"
    /\ evalPc[BatchTask] = "done"
    /\ evalPc' = [evalPc EXCEPT ![BatchTask] = "idle"]
    /\ batchIdx' = batchIdx + 1
    /\ batchLoop' = "loop"
    /\ UNCHANGED <<alerts, ingestPc, ingestEntry, ingestResult, evalTodo, notifications,
                   updateFailed, adminVars, batchPc, batchEntries, batchResult, evalStarted>>
    /\ UNCHANGED <<bufferVars, mainVars, clockVars, retVars, queryVars>>
    /\ UNCHANGED matchVars
    /\ UNCHANGED stampVars
    /\ UNCHANGED keyVars
    /\ UNCHANGED callVars
    /\ UNCHANGED evalFailed

NextIngest ==
    \/ \E r \in Rules, f \in AlertFilters : CreateAlert(r, f)
    \/ \E e \in IngestIds, lvl \in Levels : IngestSingleStart(e, lvl)
    \/ \E e \in IngestIds, ok \in BOOLEAN : IngestSingleCreate(e, ok)
    \/ \E lvls \in BatchChoices : IngestBatchStart(lvls)
    \/ \E ok \in BOOLEAN : IngestBatchCreate(ok)
    \/ BatchLoopStep
    \/ BatchEvalReturn
    \/ \E e \in EvalTasks, ok \in BOOLEAN : EvalLoad(e, ok)
    \/ \E e \in EvalTasks, ok \in BOOLEAN : \E alert \in evalTodo[e] : EvalRule(e, alert, ok)

SpecIngest == Init /\ [][NextIngest]_vars

(***************************************************************************)
(* Claims about ingestion and alert evaluation (under SpecIngest).         *)
(***************************************************************************)
\* C13: the result and the completion of IngestSingle and IngestBatch depend
\* only on the store write.  The write is never held back by the evaluation
\* (it can succeed or fail whatever the evaluation is doing), the value
\* returned is "ok" exactly when the write persisted the entries, and nothing
\* else of the call is ever persisted, whatever the evaluation did (failed to
\* load the rules, failed to parse a filter, failed to update last_triggered,
\* or never finished).
C13_IngestDependsOnlyOnStoreWrite ==
    /\ \A e \in IngestIds :
          /\ ingestPc[e] = "create" =>
                \A ok \in BOOLEAN : ENABLED IngestSingleCreate(e, ok)
          /\ ingestPc[e] = "done" =>
                /\ ingestResult[e] \in {"ok", "error"}
                /\ ingestResult[e] = "ok" <=> e \in store
          /\ ingestPc[e] # "done" => (e \notin store /\ ingestResult[e] = "none")
    /\ batchPc = "create" => \A ok \in BOOLEAN : ENABLED IngestBatchCreate(ok)
    /\ batchPc = "done" =>
          /\ batchResult \in {"ok", "error"}
          /\ IF batchResult = "ok" THEN BatchIds \subseteq store
                                   ELSE BatchIds \cap store = {}
    /\ batchPc # "done" => (BatchIds \cap store = {} /\ batchResult = "none")

\* Both calls have returned "ok" while their evaluations are unfinished and an
\* update of last_triggered has failed.
C13_Witness ==
    /\ updateFailed
    /\ \E e \in IngestIds :
          ingestPc[e] = "done" /\ ingestResult[e] = "ok" /\ evalPc[e] = "load"
    /\ batchPc = "done" /\ batchResult = "ok" /\ batchLoop = "eval"
    /\ evalPc[BatchTask] = "loop"

\* The level of an ingested entry, by its id.
LevelOf(id) == IF id \in IngestIds THEN ingestEntry[id].Level
                                   ELSE batchEntries[id - MaxIngest].Level

\* C14: checkAlerts is started for every entry ingested through IngestSingle,
\* whatever its level, and through IngestBatch only (and, once the goroutine
\* has walked the batch, exactly) for the entries whose level is ERROR or
\* FATAL; so no rule is ever triggered by a DEBUG, INFO or WARN entry of a
\* batch.
C14_EvaluationStartedPerPath ==
    /\ \A e \in IngestIds : ingestPc[e] # "idle" => e \in evalStarted
    /\ \A id \in BatchIds : id \in evalStarted => LevelOf(id) \in AlertingLevels
    /\ batchLoop = "done" =>
          \A id \in BatchIds : LevelOf(id) \in AlertingLevels => id \in evalStarted
    /\ \A i \in 1..Len(notifications) :
          notifications[i].Entry \in BatchIds =>
             LevelOf(notifications[i].Entry) \in AlertingLevels

\* The goroutine has walked a batch of an INFO and an ERROR entry: the ERROR
\* entry triggered a rule and the INFO entry was skipped, while an INFO entry
\* ingested singly triggered the same rule.
C14_Witness ==
    /\ batchLoop = "done"
    /\ Len(batchEntries) = 2
    /\ LevelOf(BatchId(1)) = "INFO" /\ BatchId(1) \notin evalStarted
    /\ \E i \in 1..Len(notifications) : notifications[i].Entry = BatchId(2)
    /\ \E e \in IngestIds :
          /\ LevelOf(e) = "INFO"
          /\ \E i \in 1..Len(notifications) : notifications[i].Entry = e

(***************************************************************************)
(* LogService.matchesAlert as a function of its arguments                  *)
(***************************************************************************)
\* The entries matchesAlert is applied to.
MatchEntries == [Level : {"INFO", "ERROR"}, ServiceName : {"api", "web"}, TenantID : Tenants]

\* The filter documents it is applied to: parsable or not, each of the three
\* fields it reads absent or set, any of the other keys present.
MatchFilters == [Valid : BOOLEAN, ServiceName : {"", "api"}, Level : {"", "ERROR"},
                 TenantID : {0, 1}, Other : SUBSET OtherFields]

InitMatch ==
    /\ InitCommon
    /\ NoKeyCall
    /\ redis = TRUE
    /\ matchEntry \in MatchEntries
    /\ matchFilter \in MatchFilters
    /\ matchResult = "none"

\* s.matchesAlert(entry, alert)
MatchCall ==
    /\ matchResult = "none"
    /\ matchResult' = IF matchesAlert(matchEntry, [Filter |-> matchFilter])
                         THEN "true" ELSE "false"
    /\ UNCHANGED <<matchEntry, matchFilter>>
    /\ UNCHANGED <<alerts, ingestPc, ingestEntry, ingestResult, evalPc, evalTodo,
                   notifications, updateFailed, adminVars, batchVars, stampVars, keyVars, callVars, evalFailed>>
    /\ UNCHANGED <<bufferVars, mainVars, clockVars, retVars, queryVars>>

NextMatch == MatchCall

SpecMatch == InitMatch /\ [][NextMatch]_vars

\* Every field the filter specifies among service name, exact level and
\* tenant equals the entry's field.
SpecifiedFieldsEqual(entry, filter) ==
    /\ filter.ServiceName # "" => filter.ServiceName = entry.ServiceName
    /\ filter.Level # "" => filter.Level = entry.Level
    /\ filter.TenantID # 0 => filter.TenantID = entry.TenantID

\* C15: matchesAlert returns true exactly when every field the rule's filter
\* specifies among service name, exact level and tenant equals the entry's
\* field; an unspecified field matches anything and the other keys of the
\* filter (minimum level, time range, trace id, user id, request id, search
\* text, environment) have no influence.  A filter document that cannot be
\* decoded specifies nothing that could be compared and matches no entry.
C15_MatchIsConjunctionWhenParsed ==
    matchResult # "none" =>
        (matchResult = "true" <=>
            (matchFilter.Valid /\ SpecifiedFieldsEqual(matchEntry, matchFilter)))

\* An INFO entry matched a parsed filter that specifies only the service
\* name and carries a minimum level and a trace id.
C15_Witness ==
    /\ matchResult = "true"
    /\ matchEntry.Level = "INFO"
    /\ matchFilter.ServiceName = "api" /\ matchFilter.Level = "" /\ matchFilter.TenantID = 0
    /\ {"min_level", "trace_id"} \subseteq matchFilter.Other

(***************************************************************************)
(* The running service: submits, the flush timer and the spawned flushes,  *)
(* with no shutdown signal.                                                *)
(***************************************************************************)
\* The flushBuffer callers of a running service.
RunningTasks == FlushTasks \ {CloseTask}

NextRunning ==
    \/ \E e \in Entries : BufferLock(e)
    \/ \E e \in Entries : BufferAppend(e)
    \/ \E e \in Entries : BufferSpawn(e)
    \/ \E t \in RunningTasks : FlushLock(t)
    \/ \E t \in RunningTasks : FlushTake(t)
    \/ \E t \in RunningTasks : FlushReset(t)
    \/ \E t \in RunningTasks : FlushCall(t)
    \/ \E t \in RunningTasks, ok \in BOOLEAN : FlushWritten(t, ok)
    \/ TimerTick
    \/ TimerReceive

\* The Go scheduler runs every runnable goroutine: a BufferLog call that holds
\* the mutex finishes, a flushBuffer call that was started takes its steps,
\* and a goroutine waiting in bufferMu.Lock() gets the mutex (sync.Mutex hands
\* it to a starving waiter), and backgroundFlush, when it waits on the ticker
\* channel, receives a tick that is there.  Nothing obliges a client to
\* submit, nor the ticker to tick.
FairRunning ==
    /\ \A e \in Entries : WF_vars(BufferAppend(e)) /\ WF_vars(BufferSpawn(e))
    /\ WF_vars(TimerReceive)
    /\ \A t \in RunningTasks :
          /\ SF_vars(FlushLock(t))
          /\ WF_vars(FlushTake(t))
          /\ WF_vars(FlushReset(t))
          /\ WF_vars(FlushCall(t))
          /\ WF_vars(\E ok \in BOOLEAN : FlushWritten(t, ok))

SpecRunning == Init /\ [][NextRunning]_vars /\ FairRunning

\* The entries of the batches whose CreateBatch returned an error.
FailedEntries == UNION {SeqToSet(b) : b \in failedWrites}

Started == {e \in Entries : subPc[e] # "idle"}

\* The buffers the service can hold.
BufferValues == {b \in UNION {[1..n -> Entries] : n \in 1..MaxEntries} :
                    \A i, j \in 1..Len(b) : i # j => b[i] # b[j]}

\* A tick is waiting for the idle timer goroutine while the buffer holds b,
\* fewer than HighWater entries; the calls S have begun and are complete, n
\* batches have been handed to CreateBatch and no other flush is in flight.
TickOnQuietBuffer(b, S, n) ==
    /\ tickPending
    /\ flushPc[TimerTask] = "idle"
    /\ buffer = b
    /\ Len(b) < HighWater
    /\ Started = S
    /\ \A e \in S : subPc[e] = "done"
    /\ \A t \in RunningTasks \ {TimerTask} : flushPc[t] \in {"idle", "done"}
    /\ Len(created) = n

\* The timer goroutine is back from flushBuffer: since the tick exactly one
\* batch was handed to CreateBatch, it is b, and the buffer is empty.
TickFlushedOnce(b, n) ==
    /\ flushPc[TimerTask] = "idle"
    /\ Len(created) = n + 1
    /\ created[n + 1] = b
    /\ buffer = <<>>

C18_FailedBatchIsDropped ==
    \A b \in failedWrites : \A e \in SeqToSet(b) :
        /\ e \notin SeqToSet(buffer)
        /\ e \notin store
        /\ \A t \in FlushTasks : e \notin SeqToSet(flushEntries[t])
        /\ Cardinality({i \in 1..Len(created) : e \in SeqToSet(created[i])}) = 1

\* After a failed flush of the first entry, a later flush has written the
\* entry that was submitted after the swap, and every flush has returned.
C18_Witness ==
    /\ failedWrites # {}
    /\ store # {}
    /\ store \cup FailedEntries = Entries
    /\ buffer = <<>>
    /\ \A t \in FlushTasks : flushPc[t] \in {"idle", "done"}

\* C19: BufferLog only appends the entry to the buffer and returns.  Its path
\* never waits for the store (once it holds the mutex its remaining steps are
\* enabled) and writes nothing to it: an entry that is not yet appended, or
\* still in the buffer, is not in the store and was not handed to CreateBatch,
\* and an entry in the store was appended, swapped out of the buffer and
\* handed to CreateBatch by a flush.
C19_BufferLogOnlyAppends ==
    \A e \in Entries :
        /\ (Alive /\ subPc[e] = "locked") => ENABLED BufferAppend(e)
        /\ (Alive /\ subPc[e] = "spawn") => ENABLED BufferSpawn(e)
        /\ ~Submitted(e) => (e \notin store /\ ~Handed(e) /\ e \notin SeqToSet(buffer))
        /\ e \in SeqToSet(buffer) => (e \notin store /\ ~Handed(e))
        /\ e \in store => (Submitted(e) /\ Handed(e) /\ e \notin SeqToSet(buffer))

\* A BufferLog call has returned and its entry sits in the buffer, not in the
\* store, while an entry submitted earlier was written by a flush.
C19_Witness ==
    \E e, e2 \in Entries :
        /\ subPc[e] = "done"
        /\ e \in SeqToSet(buffer)
        /\ e \notin store
        /\ e2 \in store

\* The tenants (0: the default pass) the Cleanup in progress has called
\* DeleteOlderThan for.
CalledFor == {cleanCalls[i].Tenant : i \in 1..Len(cleanCalls)}

\* C20: a tenant deletion that fails during Cleanup is only logged.  The call
\* goes on (its next DeleteOlderThan is enabled after a failure), and when it
\* returns, DeleteOlderThan was called once for every loaded policy and then
\* once for the default pass, whichever of the tenant calls failed; the value
\* returned is the default pass's alone.
C20_TenantFailureDoesNotAbort ==
    /\ cleanPc = "tenants" =>
          /\ \A policy \in cleanTodo : ENABLED CleanupTenant(policy, TRUE)
          /\ cleanTodo = {} => ENABLED CleanupDefault(TRUE)
          /\ CalledFor = {p.TenantID : p \in cleanPolicies \ cleanTodo}
    /\ cleanPc = "done" =>
          /\ Len(cleanCalls) = Cardinality(cleanPolicies) + 1
          /\ CalledFor = PolicyTenants \cup {0}
          /\ cleanCalls[Len(cleanCalls)].Tenant = 0
          /\ cleanResult = (IF cleanCalls[Len(cleanCalls)].Ok THEN "ok" ELSE "error")

\* The first tenant deletion failed; the second tenant's deletion and the
\* default pass ran after it, and Cleanup returned no error.
C20_Witness ==
    /\ cleanPc = "done"
    /\ Len(cleanCalls) = 3
    /\ ~cleanCalls[1].Ok
    /\ cleanCalls[2].Ok /\ cleanCalls[2].Tenant # 0
    /\ cleanCalls[3].Ok
    /\ cleanResult = "ok"
    /\ \E d \in deletions : d.pass = "tenant"

(***************************************************************************)
(* Store errors on the synchronous paths: IngestSingle, IngestBatch, Query *)
(***************************************************************************)
\* The callers' paths only: the evaluation goroutines the ingestions spawn
\* run under SpecIngest, where they are shown not to touch these paths.
NextStoreError ==
    \/ \E e \in IngestIds, lvl \in IngestLevels : IngestSingleStart(e, lvl)
    \/ \E e \in IngestIds, ok \in BOOLEAN : IngestSingleCreate(e, ok)
    \/ \E lvls \in BatchChoices : IngestBatchStart(lvls)
    \/ \E ok \in BOOLEAN : IngestBatchCreate(ok)
    \/ \E q \in QueryIds, f \in QueryFilters : QueryStart(q, f)
    \/ \E q \in QueryIds, readOk \in BOOLEAN : QueryCacheGet(q, readOk)
    \/ \E q \in QueryIds, ok \in BOOLEAN : QueryStore(q, ok)
    \/ \E q \in QueryIds, setOk \in BOOLEAN : QueryCacheSet(q, setOk)

SpecStoreError == Init /\ [][NextStoreError]_vars

\* C21: a store error during IngestSingle, IngestBatch or a Query that missed
\* the cache is returned to the caller after that one store attempt: a failing
\* attempt ends the call with the error and persists nothing, a call that has
\* returned makes no further attempt, and a failed Query called the store once
\* and wrote nothing to the cache.
C21_StoreErrorReturnedWithoutRetry ==
    /\ \A e \in IngestIds :
          /\ ingestPc[e] = "create" =>
                ENABLED (/\ IngestSingleCreate(e, FALSE)
                         /\ ingestPc'[e] = "done"
                         /\ ingestResult'[e] = "error"
                         /\ store' = store)
          /\ ingestPc[e] = "done" =>
                /\ \A ok \in BOOLEAN : ~ENABLED IngestSingleCreate(e, ok)
                /\ e \notin store => ingestResult[e] = "error"
    /\ batchPc = "create" =>
          ENABLED (/\ IngestBatchCreate(FALSE)
                   /\ batchPc' = "done"
                   /\ batchResult' = "error"
                   /\ store' = store)
    /\ batchPc = "done" =>
          /\ \A ok \in BOOLEAN : ~ENABLED IngestBatchCreate(ok)
          /\ BatchIds \cap store = {} => batchResult = "error"
    /\ \A q \in QueryIds :
          /\ storeQueries[q] <= 1
          /\ qPc[q] = "store" =>
                ENABLED (/\ QueryStore(q, FALSE)
                         /\ qPc'[q] = "done"
                         /\ qResult'[q] = ErrReturn
                         /\ cache' = cache)
          /\ (qPc[q] = "done" /\ qStored[q] = ErrReturn) =>
                /\ qResult[q] = ErrReturn
                /\ storeQueries[q] = 1
                /\ setCalls[q] = <<>>
                /\ \A key \in CacheKeys : cache[key].Writer # q

\* A single ingestion, a batch and a query have each returned the store's
\* error while another query's result sits in the cache.
C21_Witness ==
    /\ \E e \in IngestIds : ingestPc[e] = "done" /\ ingestResult[e] = "error"
    /\ batchPc = "done" /\ batchResult = "error"
    /\ \E q, q2 \in QueryIds :
          /\ qPc[q] = "done" /\ qResult[q] = ErrReturn
          /\ cache[buildCacheKey(qFilter[q])].Writer = q2

(***************************************************************************)
(* Identifier and timestamp defaults of IngestSingle, IngestBatch and      *)
(* BufferLog                                                               *)
(***************************************************************************)
\* Number of calls observed.
MaxStampCalls == 2
\* uuid.Nil
NilUUID == 0
\* Identifiers and timestamps a caller supplies (a zero time.Time is NoTime).
SuppliedIds == {100}
SuppliedTimes == {5}
StampInputs == [ID : {NilUUID} \cup SuppliedIds, Timestamp : {NoTime} \cup SuppliedTimes]
StampBatches == {<<a, b>> : a, b \in StampInputs}

\* uuid.New(): a random (version 4) identifier, taken to differ from every
\* value returned before and from the supplied ones.
NewUUID == Len(uuidIssued) + 1

\* An entry that would get a new identifier and timestamp in any case.
StampEntryAlways(entry, id, t) == [ID |-> id, Timestamp |-> t]

\* if entry.ID == uuid.Nil { entry.ID = uuid.New() }
\* if entry.Timestamp.IsZero() { entry.Timestamp = <t> }
StampEntry(entry, id, t) ==
    [ID |-> IF entry.ID = NilUUID THEN id ELSE entry.ID,
     Timestamp |-> IF entry.Timestamp = NoTime THEN t ELSE entry.Timestamp]

\* The identifier log after the defaults of entry were filled in.
IssuedAfter(entry, out) ==
    IF out.ID # entry.ID THEN Append(uuidIssued, out.ID) ELSE uuidIssued

\* The first statements of IngestSingle and of BufferLog, with
\* time.Now().UTC() as the timestamp.
StampOne(path, entry) ==
    /\ stampPc = "idle"
    /\ stampCalls < MaxStampCalls
    /\ stampPath' = path
    /\ stampIn' = <<entry>>
    /\ LET out == StampEntry(entry, NewUUID, now)
       IN /\ stampOut' = <<out>>
          /\ uuidIssued' = IssuedAfter(entry, out)
    /\ stampCallAt' = now
    /\ stampCalls' = stampCalls + 1
    /\ stampPc' = "done"
    /\ UNCHANGED <<stampIdx, stampNow>>
    /\ UNCHANGED <<alerts, ingestPc, ingestEntry, ingestResult, evalPc, evalTodo,
                   notifications, updateFailed, adminVars, batchVars, matchVars, keyVars, callVars, evalFailed>>
    /\ UNCHANGED <<bufferVars, mainVars, clockVars, retVars, queryVars>>

\* entries := batch.Entries; now := time.Now().UTC()
IngestBatchStampStart(entries) ==
    /\ stampPc = "idle"
    /\ stampCalls < MaxStampCalls
    /\ stampPath' = "IngestBatch"
    /\ stampIn' = entries
    /\ stampOut' = entries
    /\ stampNow' = now
    /\ stampCallAt' = now
    /\ stampIdx' = 1
    /\ stampCalls' = stampCalls + 1
    /\ stampPc' = "loop"
    /\ UNCHANGED uuidIssued
    /\ UNCHANGED <<alerts, ingestPc, ingestEntry, ingestResult, evalPc, evalTodo,
                   notifications, updateFailed, adminVars, batchVars, matchVars, keyVars, callVars, evalFailed>>
    /\ UNCHANGED <<bufferVars, mainVars, clockVars, retVars, queryVars>>

\* One iteration of `for i := range entries` in IngestBatch.
IngestBatchStampEntry ==
    /\ stampPc = "loop"
    /\ IF stampIdx > Len(stampOut)
         THEN /\ stampPc' = "done"
              /\ UNCHANGED <<stampOut, stampIdx, uuidIssued>>
         ELSE LET out == StampEntry(stampOut[stampIdx], NewUUID, stampNow)
              IN /\ stampOut' = [stampOut EXCEPT ![stampIdx] = out]
                 /\ uuidIssued' = IssuedAfter(stampOut[stampIdx], out)
                 /\ stampIdx' = stampIdx + 1
                 /\ UNCHANGED stampPc
    /\ UNCHANGED <<stampPath, stampIn, stampNow, stampCallAt, stampCalls>>
    /\ UNCHANGED <<alerts, ingestPc, ingestEntry, ingestResult, evalPc, evalTodo,
                   notifications, updateFailed, adminVars, batchVars, matchVars, keyVars, callVars, evalFailed>>
    /\ UNCHANGED <<bufferVars, mainVars, clockVars, retVars, queryVars>>

\* The operation goes on with the entries (the store write, the append).
StampReturn ==
    /\ stampPc = "done"
    /\ stampPc' = "idle"
    /\ stampPath' = "none"
    /\ stampIn' = <<>>
    /\ stampOut' = <<>>
    /\ stampIdx' = 0
    /\ stampNow' = NoTime
    /\ stampCallAt' = NoTime
    /\ UNCHANGED <<stampCalls, uuidIssued>>
    /\ UNCHANGED <<alerts, ingestPc, ingestEntry, ingestResult, evalPc, evalTodo,
                   notifications, updateFailed, adminVars, batchVars, matchVars, keyVars, callVars, evalFailed>>
    /\ UNCHANGED <<bufferVars, mainVars, clockVars, retVars, queryVars>>

NextStamp ==
    \/ \E d \in ClockSteps : ClockAdvance(d)
    \/ \E path \in {"IngestSingle", "BufferLog"}, entry \in StampInputs : StampOne(path, entry)
    \/ \E entries \in StampBatches : IngestBatchStampStart(entries)
    \/ IngestBatchStampEntry
    \/ StampReturn

SpecStamp == Init /\ [][NextStamp]_vars

\* The entries of the call in progress whose defaults have been filled in.
Stamped ==
    IF stampPath = "IngestBatch" THEN 1..(stampIdx - 1) ELSE 1..Len(stampOut)

\* Those of them that came without identifier, in order.
StampedNil == {i \in Stamped : stampIn[i].ID = NilUUID}

\* C22: IngestSingle, IngestBatch and BufferLog replace an absent identifier
\* by a newly generated one, different from every identifier generated before
\* (the identifiers generated in a call are the last ones of the log, which
\* has no repetition), and an absent timestamp by the clock reading at the
\* call, the same for all entries of a batch; what the caller supplied is
\* left as it is.
C22_DefaultsFilledOnlyWhenAbsent ==
    /\ \A i, j \in 1..Len(uuidIssued) : i # j => uuidIssued[i] # uuidIssued[j]
    /\ \A i \in 1..Len(uuidIssued) : uuidIssued[i] \notin SuppliedIds \cup {NilUUID}
    /\ Cardinality(StampedNil) <= Len(uuidIssued)
    /\ \A i \in StampedNil :
          LET later == Cardinality({j \in StampedNil : j > i})
          IN stampOut[i].ID = uuidIssued[Len(uuidIssued) - later]
    /\ \A i \in 1..Len(stampOut) :
          IF i \in Stamped
            THEN /\ stampIn[i].ID # NilUUID => stampOut[i].ID = stampIn[i].ID
                 /\ stampIn[i].Timestamp # NoTime => stampOut[i].Timestamp = stampIn[i].Timestamp
                 /\ stampIn[i].Timestamp = NoTime => stampOut[i].Timestamp = stampCallAt
            ELSE stampOut[i] = stampIn[i]

\* The second call is a batch whose first entry came bare and whose second
\* entry came with identifier and timestamp; the clock moved while the batch
\* was walked.
C22_Witness ==
    /\ stampPc = "done"
    /\ stampPath = "IngestBatch"
    /\ stampCalls = 2
    /\ Len(uuidIssued) = 2
    /\ now > stampCallAt
    /\ stampIn[1] = [ID |-> NilUUID, Timestamp |-> NoTime]
    /\ stampIn[2].ID # NilUUID /\ stampIn[2].Timestamp # NoTime

(***************************************************************************)
(* LogService.buildCacheKey as a function of the filter                    *)
(***************************************************************************)
\* The bytes of a decimal number below 100.
Digits(n) == IF n < 10 THEN <<48 + n>> ELSE <<48 + (n \div 10), 48 + (n % 10)>>

\* The bytes of the JSON member "name":value, the name given by its bytes.
Member(name, value) == <<34>> \o name \o <<34, 58>> \o value

\* The members of json.Marshal(filter), as bytes: the non-zero fields in
\* declaration order.  A tenant id (a UUID string) is written as one quoted
\* digit.
FilterMembers(f) ==
    (IF f.TenantID # 0
       THEN <<Member(<<116, 101, 110, 97, 110, 116, 95, 105, 100>>,
                     <<34>> \o Digits(f.TenantID) \o <<34>>)>>
       ELSE <<>>)
    \o (IF f.Page # 0 THEN <<Member(<<112, 97, 103, 101>>, Digits(f.Page))>> ELSE <<>>)
    \o (IF f.PageSize # 0
          THEN <<Member(<<112, 97, 103, 101, 95, 115, 105, 122, 101>>, Digits(f.PageSize))>>
          ELSE <<>>)

\* The members joined by commas.
RECURSIVE JoinMembers(_)
JoinMembers(ms) ==
    IF ms = <<>> THEN <<>>
    ELSE IF Len(ms) = 1 THEN ms[1]
    ELSE ms[1] \o <<44>> \o JoinMembers(Tail(ms))

\* data, _ := json.Marshal(filter): the bytes of the JSON object.
MarshalFilterBytes(f) == <<123>> \o JoinMembers(FilterMembers(f)) \o <<125>>

\* The verb %x applied to data: two hexadecimal digits per byte.
Hex(data) ==
    [i \in 1..(2 * Len(data)) |->
        IF i % 2 = 1 THEN data[(i + 1) \div 2] \div 16 ELSE data[i \div 2] % 16]

\* A cache key that would leave the page out.
CacheKeyStringWithoutPage(f) ==
    <<"log_query:">> \o Hex(MarshalFilterBytes([f EXCEPT !.Page = 0]))

\* fmt.Sprintf("log_query:%x", data): the characters of the key.
CacheKeyString(f) == <<"log_query:">> \o Hex(MarshalFilterBytes(f))

\* The filters buildCacheKey is applied to: absent or present tenant, one-
\* and two-digit pages, absent or present page size.
KeyFilters == [TenantID : {0, 1}, Page : {0, 1, 12}, PageSize : {0, 1, 2}]

InitCacheKey ==
    /\ InitCommon
    /\ NoMatchCall
    /\ redis = TRUE
    /\ keyFilterA \in KeyFilters
    /\ keyFilterB \in KeyFilters
    /\ keyA = NoKey
    /\ keyB = NoKey
    /\ keyServed = FALSE

\* A Query with filter A misses and stores its result under its key.
KeyWrite ==
    /\ keyA = NoKey
    /\ keyA' = CacheKeyString(keyFilterA)
    /\ UNCHANGED <<keyFilterA, keyFilterB, keyB, keyServed>>
    /\ UNCHANGED <<alerts, ingestPc, ingestEntry, ingestResult, evalPc, evalTodo,
                   notifications, updateFailed, adminVars, batchVars, matchVars, stampVars, callVars, evalFailed>>
    /\ UNCHANGED <<bufferVars, mainVars, clockVars, retVars, queryVars>>

\* A Query with filter B then reads the cache under its key: it is served
\* what A's call stored exactly when the keys are the same string.
KeyRead ==
    /\ keyA # NoKey
    /\ keyB = NoKey
    /\ keyB' = CacheKeyString(keyFilterB)
    /\ keyServed' = (keyB' = keyA)
    /\ UNCHANGED <<keyFilterA, keyFilterB, keyA>>
    /\ UNCHANGED <<alerts, ingestPc, ingestEntry, ingestResult, evalPc, evalTodo,
                   notifications, updateFailed, adminVars, batchVars, matchVars, stampVars, callVars, evalFailed>>
    /\ UNCHANGED <<bufferVars, mainVars, clockVars, retVars, queryVars>>

NextCacheKey == KeyWrite \/ KeyRead

SpecCacheKey == InitCacheKey /\ [][NextCacheKey]_vars

\* C23: the cache key is a function of the filter's serialization: two
\* filters get the same key exactly when their serialized forms are the same
\* bytes (which is also when the documents that stand for the key in the
\* query specification are the same), so a query is served a cached result
\* only if it was stored for a filter with the same serialization.
C23_SameKeyIffSameSerialization ==
    (keyA # NoKey /\ keyB # NoKey) =>
        /\ keyA = CacheKeyString(keyFilterA)
        /\ (keyA = keyB) <=> (MarshalFilterBytes(keyFilterA) = MarshalFilterBytes(keyFilterB))
        /\ (keyA = keyB) <=> (buildCacheKey(keyFilterA) = buildCacheKey(keyFilterB))
        /\ keyServed => MarshalFilterBytes(keyFilterA) = MarshalFilterBytes(keyFilterB)

\* Two filters that differ only in the page (1 and 12) got different keys and
\* the reader was not served the writer's result.
C23_Witness ==
    /\ keyA # NoKey /\ keyB # NoKey
    /\ keyFilterA.Page = 1 /\ keyFilterB.Page = 12
    /\ keyFilterA.TenantID = keyFilterB.TenantID
    /\ keyFilterA.PageSize = keyFilterB.PageSize
    /\ ~keyServed

\* Two calls with the same filter: the reader was served.
C23_WitnessSame ==
    keyB # NoKey /\ keyFilterA = keyFilterB /\ keyServed

(***************************************************************************)
(* The retention policy store: RetentionService over RetentionRepository   *)
(***************************************************************************)
\* Policy ids (log_retention_policies.id) and the inputs of the operations:
\* an id (NilUUID when the caller gave none), a tenant and a window.
PolicyIds == {1, 2, 3}

PolicyInputs == [ID : {NilUUID} \cup PolicyIds, TenantID : Tenants, RetentionDays : {7, 30}]

\* uuid.New(): an id no row has.
FreshPolicyId == CHOOSE id \in PolicyIds : \A p \in policyTable : p.ID # id

\* INSERT of one row: refused by the primary key or by the unique index on
\* tenant_id (migration, line 41; uniqueIndex on LogRetention.TenantID).
InsertRefused(row, table) ==
    \E p \in table : p.ID = row.ID \/ p.TenantID = row.TenantID

\* UPDATE of the row with the given id to the given row: refused when another
\* row already has the tenant.
UpdateRefused(row, table) ==
    \E p \in table : p.ID # row.ID /\ p.TenantID = row.TenantID

\* The outcome of an operation: the table afterwards and whether it failed.
Refused(table) == [Table |-> table, Err |-> TRUE]
Done(table) == [Table |-> table, Err |-> FALSE]

\* RetentionService.CreatePolicy -> RetentionRepository.Create: a nil id is
\* replaced by a new one, then the row is inserted.
PolicyCreateOutcome(in, table) ==
    LET id == IF in.ID = NilUUID THEN FreshPolicyId ELSE in.ID
        row == [in EXCEPT !.ID = id]
    IN IF InsertRefused(row, table) THEN Refused(table) ELSE Done(table \cup {row})

\* RetentionHandler.UpdatePolicy -> RetentionRepository.Update: db.Save of the
\* full row with the id of the path: an UPDATE of all columns by id, and an
\* insert when no row has the id.
PolicyUpdateOutcome(in, table) ==
    IF \E p \in table : p.ID = in.ID
      THEN IF UpdateRefused(in, table) THEN Refused(table)
           ELSE Done({p \in table : p.ID # in.ID} \cup {in})
      ELSE IF InsertRefused(in, table) THEN Refused(table) ELSE Done(table \cup {in})

\* RetentionService.UpsertPolicy -> RetentionRepository.Upsert: the service
\* replaces a nil id by a new one, so the row handed to FirstOrCreate always
\* has its primary key set.  FirstOrCreate(retention) first reads into
\* `retention`: the query has the condition tenant_id = ? and, as for every
\* read into a row whose primary key is set, the condition on that key.  A
\* row found is updated with the assigned fields; when none is found the row
\* is inserted.
PolicyUpsertOutcome(in, table) ==
    LET id == IF in.ID = NilUUID THEN FreshPolicyId ELSE in.ID
        row == [in EXCEPT !.ID = id]
        found == {p \in table : p.TenantID = row.TenantID /\ p.ID = row.ID}
    IN IF found # {}
         THEN Done((table \ found) \cup {row})
         ELSE IF InsertRefused(row, table) THEN Refused(table) ELSE Done(table \cup {row})

\* One policy operation, recorded with its input, the table before it and
\* its error.
PolicyStep(op, in, out) ==
    /\ policyTable' = out.Table
    /\ policyOp' = [Op |-> op, In |-> in, Before |-> policyTable, Err |-> out.Err]
    /\ UNCHANGED <<notPolicyVars, evalFailed>>
    /\ UNCHANGED <<alerts, ingestPc, ingestEntry, ingestResult, evalPc, evalTodo,
                   notifications, updateFailed, adminVars, batchVars, matchVars, stampVars, keyVars>>
    /\ UNCHANGED <<bufferVars, mainVars, clockVars, retVars, queryVars>>

PolicyCreate(in) == PolicyStep("create", in, PolicyCreateOutcome(in, policyTable))

PolicyUpdate(in) ==
    /\ in.ID # NilUUID
    /\ PolicyStep("update", in, PolicyUpdateOutcome(in, policyTable))

PolicyUpsert(in) == PolicyStep("upsert", in, PolicyUpsertOutcome(in, policyTable))

\* RetentionService.DeletePolicy -> RetentionRepository.Delete: DELETE by id.
PolicyDelete(id) ==
    PolicyStep("delete", [ID |-> id, TenantID |-> 0, RetentionDays |-> 0],
               Done({p \in policyTable : p.ID # id}))

NextPolicy ==
    \/ \E in \in PolicyInputs : PolicyCreate(in)
    \/ \E in \in PolicyInputs : PolicyUpdate(in)
    \/ \E in \in PolicyInputs : PolicyUpsert(in)
    \/ \E id \in PolicyIds : PolicyDelete(id)

SpecPolicy == Init /\ [][NextPolicy]_vars

\* The policies a tenant had before the last operation.
HadPolicy(t) == {p \in policyOp.Before : p.TenantID = t}

\* C24: the store holds at most one policy per tenant; a create for, or an
\* update that moves a policy to, a tenant that already has a different
\* policy fails and leaves the store unchanged; an upsert for a tenant that
\* has a policy changes that policy (the store is the one before with that
\* policy's window replaced) and adds none.
C24_OnePolicyPerTenant ==
    /\ \A p, q \in policyTable : p.TenantID = q.TenantID => p = q
    /\ (/\ policyOp.Op \in {"create", "update"}
        /\ \E p \in HadPolicy(policyOp.In.TenantID) : p.ID # policyOp.In.ID)
       => (policyOp.Err /\ policyTable = policyOp.Before)
    /\ (policyOp.Op = "upsert" /\ HadPolicy(policyOp.In.TenantID) # {})
       => /\ ~policyOp.Err
          /\ Cardinality(policyTable) = Cardinality(policyOp.Before)
          /\ \E p \in policyTable :
                p.TenantID = policyOp.In.TenantID /\ p.RetentionDays = policyOp.In.RetentionDays

\* The part of C24 that holds: one policy per tenant, refused creates and
\* moves, and an upsert that never adds a second policy for a tenant.
C24_AtMostOnePolicyPerTenant ==
    /\ \A p, q \in policyTable : p.TenantID = q.TenantID => p = q
    /\ (/\ policyOp.Op \in {"create", "update"}
        /\ \E p \in HadPolicy(policyOp.In.TenantID) : p.ID # policyOp.In.ID)
       => (policyOp.Err /\ policyTable = policyOp.Before)
    /\ (policyOp.Op = "upsert" /\ HadPolicy(policyOp.In.TenantID) # {})
       => Cardinality(policyTable) = Cardinality(policyOp.Before)

(***************************************************************************)
(* AlertService.UpdateAlert and the rule's last_triggered                  *)
(***************************************************************************)
\* AlertHandler.UpdateAlert -> AlertService.UpdateAlert -> AlertRepository.
\* Update: the row parsed from the request body, with the id of the path,
\* is saved with every column (gorm Save), last_triggered included; a body
\* without last_triggered leaves the field nil.
UpdateAlert(r, enabled, f) ==
    /\ \E a \in alerts : a.ID = r
    /\ alerts' = {a \in alerts : a.ID # r}
                    \cup {[ID |-> r, Enabled |-> enabled, Filter |-> f, LastTriggered |-> NoTime]}
    /\ UNCHANGED <<ingestPc, ingestEntry, ingestResult, evalPc, evalTodo, notifications,
                   updateFailed>>
    /\ UNCHANGED <<bufferVars, mainVars, clockVars, retVars, queryVars>>
    /\ UNCHANGED <<adminVars, batchVars, matchVars, stampVars, keyVars, callVars, evalFailed>>

NextRuleAdmin ==
    \/ NextAdmin
    \/ \E r \in Rules, enabled \in BOOLEAN, f \in AlertFilters : UpdateAlert(r, enabled, f)

SpecRuleAdmin == Init /\ [][NextRuleAdmin]_vars

\* C25: a rule's last_triggered is changed only by the evaluator's trigger:
\* every step that changes the last_triggered of a stored rule is a trigger
\* of that rule (it sets the field to the current time and appends the
\* rule's notification); update, enable and disable never change it.
C25_OnlyTriggerChangesLastTriggered ==
    [][\A a \in alerts : \A b \in alerts' :
          (a.ID = b.ID /\ a.LastTriggered # b.LastTriggered)
             => /\ b.LastTriggered = now
                /\ Len(notifications') = Len(notifications) + 1
                /\ notifications'[Len(notifications')].Rule = a.ID]_vars

\* The same for enable and disable alone (no update in the behaviour).
C25_EnableDisableKeepLastTriggered ==
    [][(\E r \in Rules, ok \in BOOLEAN : AdminSave(r, ok))
          => \A a \in alerts : \A b \in alerts' : a.ID = b.ID => a.LastTriggered = b.LastTriggered]_vars

(***************************************************************************)
(* The read requests of LogHandler under a tenant context                  *)
(***************************************************************************)
\* The rows of log_entries the reads are observed over.
ReadRows == [ID : {1, 2}, TenantID : Tenants, Level : {"INFO", "ERROR"},
             ServiceName : {"api"}, TraceID : {"t1"}]

\* The rows of one tenant.
OfTenant(t, table) == {r \in table : r.TenantID = t}

\* LogHandler.Query: filter.TenantID is set from the context, and buildQuery
\* adds tenant_id = ? to the query; the entries and the total.
QueryResponse(t, table) ==
    [Entries |-> OfTenant(t, table), Total |-> Cardinality(OfTenant(t, table))]

\* LogRepository.GetStats: the total is counted with tenant_id = ?, the level
\* and service counts are grouped over queries built anew from r.db, with
\* the time range only.
GetStats(t, table) ==
    [TotalCount |-> Cardinality(OfTenant(t, table)),
     LevelCounts |-> {<<l, Cardinality({r \in table : r.Level = l})>> :
                        l \in {r.Level : r \in table}},
     ServiceCounts |-> {<<n, Cardinality({r \in table : r.ServiceName = n})>> :
                          n \in {r.ServiceName : r \in table}}]

\* LogHandler.GetByID -> LogRepository.FindByID: id = ?, whatever the tenant.
GetByID(id, table) == {r \in table : r.ID = id}

\* LogHandler.GetByTrace -> LogRepository.GetByTraceID: trace_id = ?.
GetByTraceID(trace, table) == {r \in table : r.TraceID = trace}

\* LogHandler.GetServices -> LogRepository.GetServices: the distinct service
\* names with tenant_id = ?.
GetServices(t, table) == {r.ServiceName : r \in OfTenant(t, table)}

\* LogHandler.Aggregate: the filter is the request body as it is (the tenant
\* of the context is not put into it); one bucket with the count.
Aggregate(bodyTenant, table) ==
    Cardinality(IF bodyTenant = 0 THEN table ELSE OfTenant(bodyTenant, table))

\* A row is stored in one of the two tables.
ReadInsert(side, row) ==
    /\ \A r \in readTables[side] : r.ID # row.ID
    /\ readTables' = [readTables EXCEPT ![side] = @ \cup {row}]
    /\ readResp' = NoRead
    /\ UNCHANGED <<alerts, ingestPc, ingestEntry, ingestResult, evalPc, evalTodo,
                   notifications, updateFailed, adminVars, batchVars, matchVars, stampVars,
                   keyVars, notReadVars, evalFailed>>
    /\ UNCHANGED <<bufferVars, mainVars, clockVars, retVars, queryVars>>

\* A read request with tenant context t, answered over each table.
ReadStep(op, t, respA, respB) ==
    /\ readResp' = [Op |-> op, Tenant |-> t, Resp |-> <<respA, respB>>]
    /\ UNCHANGED readTables
    /\ UNCHANGED <<alerts, ingestPc, ingestEntry, ingestResult, evalPc, evalTodo,
                   notifications, updateFailed, adminVars, batchVars, matchVars, stampVars,
                   keyVars, notReadVars, evalFailed>>
    /\ UNCHANGED <<bufferVars, mainVars, clockVars, retVars, queryVars>>

ReadQuery(t) ==
    ReadStep("query", t, QueryResponse(t, readTables[1]), QueryResponse(t, readTables[2]))

ReadStats(t) ==
    ReadStep("stats", t, GetStats(t, readTables[1]), GetStats(t, readTables[2]))

ReadByID(t, id) ==
    ReadStep("by_id", t, GetByID(id, readTables[1]), GetByID(id, readTables[2]))

ReadByTrace(t, trace) ==
    ReadStep("by_trace", t, GetByTraceID(trace, readTables[1]), GetByTraceID(trace, readTables[2]))

ReadServices(t) ==
    ReadStep("services", t, GetServices(t, readTables[1]), GetServices(t, readTables[2]))

ReadAggregate(t, bodyTenant) ==
    ReadStep("aggregate", t, Aggregate(bodyTenant, readTables[1]), Aggregate(bodyTenant, readTables[2]))

NextRead ==
    \/ \E side \in {1, 2}, row \in ReadRows : ReadInsert(side, row)
    \/ \E t \in Tenants : ReadQuery(t)
    \/ \E t \in Tenants : ReadStats(t)
    \/ \E t \in Tenants, id \in {1, 2} : ReadByID(t, id)
    \/ \E t \in Tenants : ReadByTrace(t, "t1")
    \/ \E t \in Tenants : ReadServices(t)
    \/ \E t \in Tenants, bodyTenant \in {0} \cup Tenants : ReadAggregate(t, bodyTenant)

SpecRead == Init /\ [][NextRead]_vars

\* The two tables hold the same entries of the tenant of the last request.
SameForTenant ==
    OfTenant(readResp.Tenant, readTables[1]) = OfTenant(readResp.Tenant, readTables[2])

\* C26: the response to a read request with tenant context T depends only on
\* the entries of T: over two tables with the same entries of T, whatever
\* the other tenants' entries, the request gets the same response.
C26_ReadsDependOnlyOnOwnTenant ==
    (readResp.Op # "none" /\ SameForTenant) => readResp.Resp[1] = readResp.Resp[2]

\* The reads that do restrict themselves to the tenant: query, the total of
\* the statistics and the service list.
C26_QueryAndServicesIsolated ==
    (readResp.Op \in {"query", "services"} /\ SameForTenant)
       => readResp.Resp[1] = readResp.Resp[2]

(***************************************************************************)
(* LogService.triggerAlert, call by call                                   *)
(***************************************************************************)
\* The step is the iteration of evaluation e over the loaded rule `alert`.
Iterates(e, alert) ==
    /\ evalPc[e] = "loop"
    /\ alert \in evalTodo[e]
    /\ evalTodo'[e] = evalTodo[e] \ {alert}

\* The step is a call of triggerAlert(alert, entry of e).
Triggers(e, alert) == Iterates(e, alert) /\ matchesAlert(ingestEntry[e], alert)

\* The loaded rule's last_triggered is null or more than a minute old.
Armed(alert) == alert.LastTriggered = NoTime \/ now - alert.LastTriggered > Minute

\* The stored rule is in cooldown after the step.
InCooldownAfter(id) ==
    \E a \in alerts' : a.ID = id /\ a.LastTriggered # NoTime /\ now' - a.LastTriggered < Minute

\* C27: trigger(rule, entry) on a rule whose last_triggered is null or more
\* than 60 seconds in the past sets the stored last_triggered to the
\* current time and appends exactly one notification; right after the call
\* the rule is in cooldown.
C27_ArmedTriggerSetsCooldown ==
    [][\A e \in IngestIds : \A alert \in evalTodo[e] :
          (Triggers(e, alert) /\ Armed(alert))
             => /\ \A a \in alerts' : a.ID = alert.ID => a.LastTriggered = now
                /\ notifications' = Append(notifications, notifications'[Len(notifications')])
                /\ notifications'[Len(notifications')].Rule = alert.ID
                /\ InCooldownAfter(alert.ID)]_vars

\* The same for the calls in which UpdateLastTriggered returns no error.
C27_ArmedTriggerSetsCooldownIfStored ==
    [][\A e \in IngestIds : \A alert \in evalTodo[e] :
          (EvalRule(e, alert, TRUE) /\ matchesAlert(ingestEntry[e], alert) /\ Armed(alert))
             => /\ \A a \in alerts' : a.ID = alert.ID => a.LastTriggered = now
                /\ notifications' = Append(notifications, notifications'[Len(notifications')])
                /\ notifications'[Len(notifications')].Rule = alert.ID
                /\ InCooldownAfter(alert.ID)]_vars

\* C28: trigger(rule, entry) on a rule whose last_triggered is not more than
\* 60 seconds in the past, an age of exactly 60 seconds included, is
\* dropped: the stored rules and the notifications are as before the call.
C28_TriggerWithinCooldownDropped ==
    [][\A e \in IngestIds : \A alert \in evalTodo[e] :
          (/\ Triggers(e, alert)
           /\ alert.LastTriggered # NoTime
           /\ now - alert.LastTriggered <= Minute)
             => (alerts' = alerts /\ notifications' = notifications)]_vars

\* The same for an age strictly less than 60 seconds.
C28_TriggerBeforeFullMinuteDropped ==
    [][\A e \in IngestIds : \A alert \in evalTodo[e] :
          (/\ Triggers(e, alert)
           /\ alert.LastTriggered # NoTime
           /\ now - alert.LastTriggered < Minute)
             => (alerts' = alerts /\ notifications' = notifications)]_vars

(***************************************************************************)
(* checkAlerts over several rules                                          *)
(***************************************************************************)
\* The rules of the evaluation specification.
EvalRules == {1, 2}

NextEval ==
    \/ \E r \in EvalRules, f \in AlertFilters : CreateAlert(r, f)
    \/ \E e \in IngestIds, lvl \in IngestLevels : IngestSingleStart(e, lvl)
    \/ \E e \in IngestIds, ok \in BOOLEAN : IngestSingleCreate(e, ok)
    \/ \E e \in IngestIds, ok \in BOOLEAN : EvalLoad(e, ok)
    \/ \E e \in IngestIds, ok \in BOOLEAN : \E alert \in evalTodo[e] : EvalRule(e, alert, ok)

SpecEval == Init /\ [][NextEval]_vars

\* C29: when the enabled rules cannot be loaded, or a rule's match predicate
\* cannot be parsed, the evaluation is aborted for that call: the failed load
\* ends the call with no rule visited, and after a filter that did not parse
\* the call triggers no rule (no last_triggered update, no notification).
C29_FailureAbortsEvaluation ==
    [][\A e \in IngestIds :
          /\ EvalLoad(e, FALSE) => (evalPc'[e] = "done" /\ evalTodo'[e] = {})
          /\ \A alert \in evalTodo[e] :
                (Iterates(e, alert) /\ e \in evalFailed)
                   => (alerts' = alerts /\ notifications' = notifications)]_vars

\* The part for the load: a failed FindEnabled ends the call at once.
C29_FailedLoadEndsEvaluation ==
    [][\A e \in IngestIds :
          EvalLoad(e, FALSE) => (evalPc'[e] = "done" /\ evalTodo'[e] = {})]_vars

(***************************************************************************)
(* The default pass of LogService.Cleanup                                  *)
(***************************************************************************)
\* The positions of the default pass among the DeleteOlderThan calls of the
\* Cleanup in progress.
DefaultPasses == {i \in 1..Len(cleanCalls) : cleanCalls[i].Tenant = 0}

\* The calls of a Cleanup that has run its default pass: one call for every
\* loaded policy, then the one default pass.
DefaultPassRanLast(calls, loaded) ==
    /\ Len(calls) = Cardinality(loaded) + 1
    /\ {calls[i].Tenant : i \in 1..(Len(calls) - 1)} = {p.TenantID : p \in loaded}
    /\ calls[Len(calls)].Tenant = 0

C30_WitnessWithPolicy ==
    /\ cleanPc = "done"
    /\ cleanPolicies # {}
    /\ Len(cleanCalls) = Cardinality(cleanPolicies) + 1

(***************************************************************************)
(* LogService.Cleanup under the one-hour deadline of the scheduler         *)
(***************************************************************************)
\* startCleanupScheduler: ctx, cancel := context.WithTimeout(..., 1*time.Hour).
\* The deadline passes while Cleanup(ctx) runs.
DeadlineExpires ==
    /\ cleanPc = "tenants"
    /\ ~dlExpired
    /\ dlExpired' = TRUE
    /\ UNCHANGED <<dlCall, dlCalls>>
    /\ UNCHANGED <<alerts, ingestPc, ingestEntry, ingestResult, evalPc, evalTodo,
                   notifications, updateFailed, adminVars, batchVars, matchVars, stampVars,
                   keyVars, notDeadlineVars, evalFailed>>
    /\ UNCHANGED <<bufferVars, mainVars, clockVars, retVars, queryVars>>

\* Cleanup calls DeleteOlderThan(ctx, tenant, cutoff): the next policy of the
\* loop, or the default pass (tenant 0) once the loop is over.  Cleanup never
\* looks at ctx itself, so the call is made whether or not the deadline has
\* passed.
DeleteCall(tenant, days) ==
    /\ cleanPc = "tenants"
    /\ dlCall = NoCall
    /\ IF tenant = 0
         THEN /\ cleanTodo = {}
              /\ days = DefaultRetentionDays
              /\ UNCHANGED cleanTodo
         ELSE /\ [TenantID |-> tenant, RetentionDays |-> days] \in cleanTodo
              /\ cleanTodo' = cleanTodo \ {[TenantID |-> tenant, RetentionDays |-> days]}
    /\ dlCall' = [Tenant |-> tenant, Cutoff |-> today - days, Late |-> dlExpired]
    /\ UNCHANGED <<dlExpired, dlCalls>>
    /\ UNCHANGED <<policies, logRows, rowsInserted, cleanPc, cleanPolicies, cleanRows,
                   cleanAllOk, cleanResult, deletions, cleanCalls>>
    /\ UNCHANGED <<alerts, ingestPc, ingestEntry, ingestResult, evalPc, evalTodo,
                   notifications, updateFailed, adminVars, batchVars, matchVars, stampVars,
                   keyVars, notDeadlineVars, evalFailed>>
    /\ UNCHANGED <<bufferVars, mainVars, clockVars, queryVars>>

\* The call returns.  r.db.WithContext(ctx) ties the DELETE to the deadline:
\* a call made after the deadline fails at once, a statement running when
\* the deadline passes is cancelled (cut = TRUE: the error is returned and no
\* row is deleted) unless it had already finished.  ok = FALSE is any other
\* store error.  The loop goes on after a tenant call; the default pass ends
\* Cleanup.
DeleteReturn(cut, ok) ==
    /\ dlCall # NoCall
    /\ dlCall.Late => cut
    /\ cut => dlExpired
    /\ LET gone == IF cut \/ ~ok THEN {} ELSE DeleteOlderThan(dlCall.Tenant, dlCall.Cutoff)
       IN /\ logRows' = logRows \ gone
          /\ dlCalls' = Append(dlCalls, [Tenant |-> dlCall.Tenant, Late |-> dlCall.Late,
                                         Cut |-> cut /\ ~dlCall.Late, Gone |-> gone])
    /\ dlCall' = NoCall
    /\ cleanPc' = IF dlCall.Tenant = 0 THEN "done" ELSE cleanPc
    /\ cleanResult' = IF dlCall.Tenant # 0 THEN cleanResult
                      ELSE IF cut \/ ~ok THEN "error" ELSE "ok"
    /\ UNCHANGED dlExpired
    /\ UNCHANGED <<policies, rowsInserted, cleanTodo, cleanPolicies, cleanRows, cleanAllOk,
                   deletions, cleanCalls>>
    /\ UNCHANGED <<alerts, ingestPc, ingestEntry, ingestResult, evalPc, evalTodo,
                   notifications, updateFailed, adminVars, batchVars, matchVars, stampVars,
                   keyVars, notDeadlineVars, evalFailed>>
    /\ UNCHANGED <<bufferVars, mainVars, clockVars, queryVars>>

\* Cleanup has returned to the scheduler, which calls cancel().
DeadlineCleanupReturn ==
    /\ cleanPc = "done"
    /\ cleanPc' = "idle"
    /\ cleanPolicies' = {}
    /\ cleanRows' = {}
    /\ dlExpired' = FALSE
    /\ dlCalls' = <<>>
    /\ UNCHANGED dlCall
    /\ UNCHANGED <<policies, logRows, rowsInserted, cleanTodo, cleanAllOk, cleanResult,
                   deletions, cleanCalls>>
    /\ UNCHANGED <<alerts, ingestPc, ingestEntry, ingestResult, evalPc, evalTodo,
                   notifications, updateFailed, adminVars, batchVars, matchVars, stampVars,
                   keyVars, notDeadlineVars, evalFailed>>
    /\ UNCHANGED <<bufferVars, mainVars, clockVars, queryVars>>

NextDeadline ==
    \/ \E t \in Tenants, days \in RetentionChoices : CreatePolicy(t, days)
    \/ \E t \in Tenants, age \in AgeChoices : InsertRow(t, age)
    \/ \E ok \in BOOLEAN : CleanupStart(ok)
    \/ DeadlineExpires
    \/ \E t \in {0} \cup Tenants, days \in RetentionChoices \cup {DefaultRetentionDays} :
          DeleteCall(t, days)
    \/ \E cut, ok \in BOOLEAN : DeleteReturn(cut, ok)
    \/ DeadlineCleanupReturn

SpecDeadline == Init /\ [][NextDeadline]_vars

\* C31: when the deadline passes during Cleanup, the deletion in progress is
\* not interrupted, and Cleanup stops at the next tenant boundary: no
\* DeleteOlderThan call was cut by the deadline, and none was started after
\* the deadline had passed.
C31_DeadlineStopsAtTenantBoundary ==
    /\ \A i \in 1..Len(dlCalls) : ~dlCalls[i].Cut /\ ~dlCalls[i].Late
    /\ dlCall # NoCall => ~dlCall.Late

\* What the deadline does guarantee: a call started after it deletes nothing.
C31_NothingDeletedAfterDeadline ==
    \A i \in 1..Len(dlCalls) : (dlCalls[i].Late \/ dlCalls[i].Cut) => dlCalls[i].Gone = {}

(***************************************************************************)
(* LogService.Cleanup run again                                            *)
(***************************************************************************)
\* Cleanup has returned to its caller; what the next call can be compared
\* with is kept: the policies it had loaded, the day, the rows it left,
\* whether every store call of it succeeded and whether no entry was added
\* while it ran.
CleanupFinishRecorded ==
    /\ cleanPc = "done"
    /\ cleanPc' = "idle"
    /\ lastRun' = [AllOk |-> cleanAllOk, Policies |-> cleanPolicies, Day |-> today,
                   Rows |-> logRows, Quiet |-> logRows \subseteq cleanRows,
                   Inserted |-> rowsInserted]
    /\ cleanPolicies' = {}
    /\ cleanRows' = {}
    /\ cleanAllOk' = TRUE
    /\ deletions' = {}
    /\ cleanCalls' = <<>>
    /\ UNCHANGED <<policies, logRows, rowsInserted, cleanTodo, cleanResult>>
    /\ UNCHANGED <<alerts, ingestPc, ingestEntry, ingestResult, evalPc, evalTodo,
                   notifications, updateFailed, adminVars, batchVars, matchVars, stampVars,
                   keyVars, notRerunVars, evalFailed>>
    /\ UNCHANGED <<bufferVars, mainVars, clockVars, queryVars>>

NextRerun ==
    \/ \E t \in Tenants, days \in RetentionChoices : CreatePolicy(t, days)
    \/ \E t \in Tenants, age \in AgeChoices : InsertRow(t, age)
    \/ DayAdvance
    \/ \E ok \in BOOLEAN : CleanupStart(ok)
    \/ \E ok \in BOOLEAN : \E policy \in cleanTodo : CleanupTenant(policy, ok)
    \/ \E ok \in BOOLEAN : CleanupDefault(ok)
    \/ CleanupFinishRecorded

SpecRerun == Init /\ [][NextRerun]_vars

\* The Cleanup in progress is a second run under the conditions of the
\* previous one: the same policies, the same day, and the rows the previous
\* run left, with no entry added since the previous run began.
SecondRun ==
    /\ cleanPc \in {"tenants", "done"}
    /\ "Policies" \in DOMAIN lastRun
    /\ lastRun.Policies = cleanPolicies
    /\ lastRun.Day = today
    /\ lastRun.Rows = cleanRows
    /\ lastRun.Quiet
    /\ rowsInserted = lastRun.Inserted

MaxStreamTime == 4
\* Number of queries one stream makes.
MaxPolls == 2
\* Timestamps an entry can carry: a caller-supplied one is kept as it is and
\* can lie ahead of the clock; one left zero is set to time.Now().
StreamTimes == 0..(MaxStreamTime + 1)

\* An entry reaches the log_entries table; `at` is the time of the insert.
StreamInsert(t, ts) ==
    /\ Cardinality(streamRows) < MaxRows
    /\ streamRows' = streamRows \cup {[id |-> Cardinality(streamRows) + 1, tenant |-> t, ts |-> ts,
                                       at |-> streamNow]}
    /\ UNCHANGED <<streamPc, streamTenant, streamNow, lastCheck, streamOut>>
    /\ UNCHANGED <<alerts, ingestPc, ingestEntry, ingestResult, evalPc, evalTodo,
                   notifications, updateFailed, adminVars, batchVars, matchVars, stampVars,
                   keyVars, notStreamVars, evalFailed>>
    /\ UNCHANGED <<bufferVars, mainVars, clockVars, retVars, queryVars>>

\* One second passes.
StreamTick ==
    /\ streamNow < MaxStreamTime
    /\ streamNow' = streamNow + 1
    /\ UNCHANGED <<streamPc, streamTenant, streamRows, lastCheck, streamOut>>
    /\ UNCHANGED <<alerts, ingestPc, ingestEntry, ingestResult, evalPc, evalTodo,
                   notifications, updateFailed, adminVars, batchVars, matchVars, stampVars,
                   keyVars, notStreamVars, evalFailed>>
    /\ UNCHANGED <<bufferVars, mainVars, clockVars, retVars, queryVars>>

\* Stream: the filter takes the tenant of the request; lastCheck := time.Now().
StreamOpen(t) ==
    /\ streamPc = "closed"
    /\ streamPc' = "poll"
    /\ streamTenant' = t
    /\ lastCheck' = streamNow
    /\ UNCHANGED <<streamRows, streamNow, streamOut>>
    /\ UNCHANGED <<alerts, ingestPc, ingestEntry, ingestResult, evalPc, evalTodo,
                   notifications, updateFailed, adminVars, batchVars, matchVars, stampVars,
                   keyVars, notStreamVars, evalFailed>>
    /\ UNCHANGED <<bufferVars, mainVars, clockVars, retVars, queryVars>>

\* buildQuery with filter.TenantID and filter.StartTime set:
\* tenant_id = ? AND timestamp >= ?.  The rows fit in the first page.
StreamQuery(rows, tenant, since) ==
    {r \in rows : r.tenant = tenant /\ r.ts >= since}

\* The default branch of the loop: filter.StartTime = &lastCheck, Query, and
\* one Writef per entry of the result; a failed query writes nothing.  A
\* key of the result cache holds the StartTime, which no earlier query had.
StreamPoll(ok) ==
    /\ streamPc = "poll"
    /\ Len(streamOut) < MaxPolls
    /\ streamPc' = "mark"
    /\ streamOut' = Append(streamOut,
           [Since |-> lastCheck,
            Ids |-> IF ok THEN {r.id : r \in StreamQuery(streamRows, streamTenant, lastCheck)}
                          ELSE {}])
    /\ UNCHANGED <<streamTenant, streamRows, streamNow, lastCheck>>
    /\ UNCHANGED <<alerts, ingestPc, ingestEntry, ingestResult, evalPc, evalTodo,
                   notifications, updateFailed, adminVars, batchVars, matchVars, stampVars,
                   keyVars, notStreamVars, evalFailed>>
    /\ UNCHANGED <<bufferVars, mainVars, clockVars, retVars, queryVars>>

\* lastCheck = time.Now(), then time.Sleep(1 * time.Second) begins.  The
\* query and the writes took time: this reading of the clock is later than
\* the time at which the query read the table.
StreamMark ==
    /\ streamPc = "mark"
    /\ streamNow < MaxStreamTime
    /\ streamPc' = "sleep"
    /\ streamNow' = streamNow + 1
    /\ lastCheck' = streamNow'
    /\ UNCHANGED <<streamTenant, streamRows, streamOut>>
    /\ UNCHANGED <<alerts, ingestPc, ingestEntry, ingestResult, evalPc, evalTodo,
                   notifications, updateFailed, adminVars, batchVars, matchVars, stampVars,
                   keyVars, notStreamVars, evalFailed>>
    /\ UNCHANGED <<bufferVars, mainVars, clockVars, retVars, queryVars>>

\* The sleep is over after at least one second; the loop starts again.
StreamWake ==
    /\ streamPc = "sleep"
    /\ streamNow >= lastCheck + 1
    /\ streamPc' = "poll"
    /\ UNCHANGED <<streamTenant, streamRows, streamNow, lastCheck, streamOut>>
    /\ UNCHANGED <<alerts, ingestPc, ingestEntry, ingestResult, evalPc, evalTodo,
                   notifications, updateFailed, adminVars, batchVars, matchVars, stampVars,
                   keyVars, notStreamVars, evalFailed>>
    /\ UNCHANGED <<bufferVars, mainVars, clockVars, retVars, queryVars>>

\* case <-ctx.Done(): return nil.
StreamDone ==
    /\ streamPc = "poll"
    /\ streamPc' = "ended"
    /\ UNCHANGED <<streamTenant, streamRows, streamNow, lastCheck, streamOut>>
    /\ UNCHANGED <<alerts, ingestPc, ingestEntry, ingestResult, evalPc, evalTodo,
                   notifications, updateFailed, adminVars, batchVars, matchVars, stampVars,
                   keyVars, notStreamVars, evalFailed>>
    /\ UNCHANGED <<bufferVars, mainVars, clockVars, retVars, queryVars>>

NextStream ==
    \/ \E t \in Tenants, ts \in StreamTimes : StreamInsert(t, ts)
    \/ StreamTick
    \/ \E t \in Tenants : StreamOpen(t)
    \/ \E ok \in BOOLEAN : StreamPoll(ok)
    \/ StreamMark
    \/ StreamWake
    \/ StreamDone

SpecStream == Init /\ [][NextStream]_vars

\* Number of polls of the stream that wrote the entry.
RECURSIVE TimesEmitted(_, _)
TimesEmitted(id, out) ==
    IF out = <<>> THEN 0
    ELSE (IF id \in Head(out).Ids THEN 1 ELSE 0) + TimesEmitted(id, Tail(out))

\* C33: on one stream no entry is emitted more than once, whatever the
\* entries' timestamps and whatever the timing of the polls.
C33_NoEntryEmittedTwice ==
    \A r \in streamRows : TimesEmitted(r.id, streamOut) <= 1

\* What the loop does ensure: a poll writes only entries of the stream's
\* tenant whose timestamp is not before the lastCheck of that poll.
C33_EmittedNotBeforeLastCheck ==
    \A i \in 1..Len(streamOut) : \A r \in streamRows :
        r.id \in streamOut[i].Ids => (r.tenant = streamTenant /\ r.ts >= streamOut[i].Since)

\* Entries whose timestamp is not ahead of the clock when they are stored are
\* written by at most one poll.
C33_PastStampedEmittedOnce ==
    \A r \in streamRows : r.ts <= r.at => TimesEmitted(r.id, streamOut) <= 1

(***************************************************************************)
(* The buffer mutex during a flush                                         *)
(***************************************************************************)
\* A flushBuffer call is between its Unlock and the return of CreateBatch.
WriteInProgress(t) == flushPc[t] \in {"unlocked", "writing"}

\* C34: while the store write of a flush is in progress the flush does not
\* hold the buffer mutex; the mutex is held only for the append of BufferLog
\* and for the swap of flushBuffer; and a BufferLog running next to the write
\* can take the free mutex, append to the new buffer and return.
C34_WriteOutsideLock ==
    /\ \A t \in FlushTasks : WriteInProgress(t) => bufferMu # t
    /\ \A t \in FlushTasks : bufferMu = t => flushPc[t] \in {"locked", "taken"}
    /\ \A e \in Entries : bufferMu = Submitter(e) => subPc[e] = "locked"
    /\ \A t \in FlushTasks, e \in Entries :
         (WriteInProgress(t) /\ Alive) =>
            /\ (subPc[e] = "idle" /\ bufferMu = NoHolder) => ENABLED BufferLock(e)
            /\ subPc[e] = "locked" => ENABLED BufferAppend(e)

\* A BufferLog has appended to the new buffer and returned while the write of
\* the batch taken before is still in progress.
C34_Witness ==
    \E t \in FlushTasks, e \in Entries :
        /\ flushPc[t] = "writing"
        /\ subPc[e] = "done"
        /\ e \in SeqToSet(buffer)
        /\ e \notin SeqToSet(flushEntries[t])

(***************************************************************************)
(* flushBuffer on an empty buffer                                          *)
(***************************************************************************)
\* The step of flushBuffer call t that finds the buffer empty returns without
\* touching the buffer, the store or the record of store calls.
EmptyFlushNoOp(t) ==
    (flushPc[t] = "locked" /\ Len(buffer) = 0 /\ flushPc'[t] # flushPc[t]) =>
        /\ flushPc'[t] = FlushReturnPc(t)
        /\ bufferMu' = NoHolder
        /\ UNCHANGED <<buffer, flushEntries, created, store, failedWrites>>

\* C35: flushing an empty buffer is a no-op, whoever started the flush (the
\* timer, the high-water mark or Close): the call returns with the buffer
\* unchanged and makes no store call, and so no CreateBatch ever receives an
\* empty batch.
C35_EmptyFlushIsNoOp ==
    /\ [](\A i \in 1..Len(created) : created[i] # <<>>)
    /\ [][\A t \in FlushTasks : EmptyFlushNoOp(t)]_vars

\* The flush started by the high-water mark and the flush of Close have both
\* returned and one store call was made, with both entries: at least one of
\* the two flushes found the buffer empty.
C35_Witness ==
    \E e \in Entries :
        /\ flushPc[HwTask(e)] = "done"
        /\ flushPc[CloseTask] = "done"
        /\ Len(created) = 1
        /\ Len(created[1]) = MaxEntries

(***************************************************************************)
(* IngestSingle: the evaluation and the store write                        *)
(***************************************************************************)
\* The evaluation of entry e has been started once IngestSingle is at its
\* store write, and each of its steps can be taken whatever the write did.
EvaluationRunsFree(e) ==
    /\ ingestPc[e] # "idle" => evalPc[e] # "idle"
    /\ evalPc[e] = "load" => \A ok \in BOOLEAN : ENABLED EvalLoad(e, ok)
    /\ evalPc[e] = "loop" =>
          \A alert \in evalTodo[e], ok \in BOOLEAN : ENABLED EvalRule(e, alert, ok)

\* The return of the store write leaves the evaluation, the rules and the
\* notifications as they are.
WriteLeavesEvaluation(e) ==
    (ingestPc[e] = "create" /\ ingestPc'[e] = "done") =>
        /\ evalPc'[e] = evalPc[e]
        /\ evalTodo'[e] = evalTodo[e]
        /\ UNCHANGED <<alerts, notifications>>

\* No step takes a notification back or moves a rule's last_triggered back.
TriggersKept ==
    /\ Len(notifications') >= Len(notifications)
    /\ SubSeq(notifications', 1, Len(notifications)) = notifications
    /\ \A a \in alerts : \E b \in alerts' :
          b.ID = a.ID /\ b.LastTriggered >= a.LastTriggered

\* C36: on IngestSingle the evaluation of the entry is started before the
\* store write and proceeds whatever the write's outcome; a trigger caused by
\* an entry whose write failed is not undone.
C36_EvaluationIgnoresWriteOutcome ==
    /\ [](\A e \in IngestIds : EvaluationRunsFree(e))
    /\ [][(\A e \in IngestIds : WriteLeavesEvaluation(e)) /\ TriggersKept]_vars

\* An entry whose write failed, and which is not in the store, has triggered
\* a rule: the notification was produced and the rule's last_triggered is
\* the time of that trigger.
C36_Witness ==
    \E e \in IngestIds :
        /\ ingestPc[e] = "done" /\ ingestResult[e] = "error" /\ e \notin store
        /\ \E i \in 1..Len(notifications) :
              /\ notifications[i].Entry = e
              /\ \E a \in alerts :
                    a.ID = notifications[i].Rule /\ a.LastTriggered = notifications[i].At

MatchingBatches == { <<"ERROR", "FATAL">>, <<"ERROR", "INFO", "ERROR">> }

\* One IngestBatch call with its goroutine; no other evaluation runs.
NextBatch ==
    \/ \E d \in ClockSteps : ClockAdvance(d)
    \/ \E r \in Rules, f \in AlertFilters : CreateAlert(r, f)
    \/ \E lvls \in MatchingBatches : IngestBatchStart(lvls)
    \/ \E ok \in BOOLEAN : IngestBatchCreate(ok)
    \/ BatchLoopStep
    \/ BatchEvalReturn
    \/ \E ok \in BOOLEAN : EvalLoad(BatchTask, ok)
    \/ \E ok \in BOOLEAN : \E alert \in evalTodo[BatchTask] : EvalRule(BatchTask, alert, ok)

SpecBatch == Init /\ [][NextBatch]_vars

\* The goroutine starts one evaluation at a time, for the entry at its
\* position in the batch, after those of all earlier entries; the evaluation
\* begins with a load of the enabled rules.
StartsInBatchOrder ==
    evalStarted' # evalStarted =>
        /\ batchLoop = "loop" /\ evalPc[BatchTask] \in {"idle", "done"}
        /\ evalStarted' = evalStarted \cup {BatchId(batchIdx)}
        /\ \A id \in evalStarted : id < BatchId(batchIdx)
        /\ evalPc'[BatchTask] = "load"

\* C38 as stated: when every last_triggered update succeeds, one batch
\* triggers any single rule at most once, however many of its entries match.
C38_BatchTriggersRuleOnce ==
    ~updateFailed =>
        \A i, j \in 1..Len(notifications) :
            (i < j /\ notifications[i].Entry \in BatchIds /\ notifications[j].Entry \in BatchIds)
                => notifications[i].Rule # notifications[j].Rule

\* C38: the ERROR/FATAL entries of one IngestBatch call are evaluated one
\* after another by a single task, in batch order, each evaluation reloading
\* the enabled rules; hence, when every last_triggered update succeeds, two
\* entries of one batch trigger the same rule only a full minute or more
\* apart.
C38_BatchTriggersRuleOncePerMinute ==
    /\ [](~updateFailed =>
            \A i, j \in 1..Len(notifications) :
                (i < j /\ notifications[i].Rule = notifications[j].Rule)
                    => /\ notifications[i].Entry < notifications[j].Entry
                       /\ notifications[j].At - notifications[i].At >= Minute)
    /\ [][StartsInBatchOrder]_vars

\* The goroutine has walked a batch of two ERROR/FATAL entries that both
\* match the rule: both were evaluated, every update succeeded, and the rule
\* was triggered once, by the first of them.
C38_Witness ==
    /\ batchLoop = "done"
    /\ ~updateFailed
    /\ Len(batchEntries) = 2
    /\ BatchIds \subseteq evalStarted
    /\ \E a \in alerts : \A id \in BatchIds : matchesAlert(batchEntries[id - MaxIngest], a)
    /\ Len(notifications) = 1
    /\ notifications[1].Entry = BatchId(1)

(***************************************************************************)
(* The buffered path and the alert rules                                   *)
(***************************************************************************)
\* The entries handed to BufferLog: levels of both kinds occur among them.
BufferedEntry(e) ==
    [Level |-> IF e % 2 = 1 THEN "ERROR" ELSE "INFO", ServiceName |-> "api", TenantID |-> 1]

\* BufferLog, the flushes and shutdown, next to the creation of alert rules.
NextBuffered ==
    \/ NextBuffer
    \/ \E r \in Rules, f \in AlertFilters : CreateAlert(r, f)

SpecBuffered == Init /\ [][NextBuffered]_vars

\* The step belongs to BufferLog or to a flushBuffer call.
BufferedPathStep ==
    subPc' # subPc \/ flushPc' # flushPc \/ buffer' # buffer \/ store' # store

\* C39: entries that enter through BufferLog and a flush are never evaluated
\* against the alert rules: no step of BufferLog or of a flush starts an
\* evaluation, produces a notification or changes a rule, so that with
\* buffered entries only no evaluation ever runs and every rule's
\* last_triggered stays null, whatever the entries' levels.
C39_BufferedPathNeverEvaluates ==
    /\ [](/\ evalStarted = {}
          /\ notifications = <<>>
          /\ \A t \in EvalTasks : evalPc[t] = "idle"
          /\ \A a \in alerts : a.LastTriggered = NoTime)
    /\ [][BufferedPathStep =>
             UNCHANGED <<alerts, evalPc, evalTodo, evalStarted, notifications>>]_vars

\* An ERROR entry has reached the store through BufferLog and a flush while
\* an enabled rule that matches it exists; the rule has never triggered.
C39_Witness ==
    \E e \in store, a \in alerts :
        /\ BufferedEntry(e).Level = "ERROR"
        /\ subPc[e] = "done"
        /\ a.Enabled /\ matchesAlert(BufferedEntry(e), a)
        /\ a.LastTriggered = NoTime
        /\ notifications = <<>>

(***************************************************************************)
(* The ingestion endpoints and the tenant of a request                     *)
(***************************************************************************)
\* Number of entries persisted by the requests observed.
MaxWrites == 3
\* Values of the X-Tenant-ID header: absent, not a UUID, or a tenant's UUID.
TenantHeaders == {"", "not-a-uuid", "uuid-of-tenant-1", "uuid-of-tenant-2"}
\* Values of tenant_id in an entry of the request body: absent (uuid.Nil) or
\* a tenant's UUID.
BodyTenants == {NilUUID} \cup Tenants
\* The entries of a batch, by the tenant_id each carries in the body.
BatchBodies == {<<b>> : b \in BodyTenants} \cup {<<a, b>> : a, b \in BodyTenants}

\* middleware.TenantExtractor: c.Locals("tenant_id") is set when the header
\* is present and parses as a UUID; NilUUID stands for no tenant context.
TenantExtractor(header) ==
    CASE header = "uuid-of-tenant-1" -> 1
      [] header = "uuid-of-tenant-2" -> 2
      [] OTHER -> NilUUID

\* LogHandler.IngestSingle: the tenant of the context replaces the entry's.
SingleTenant(ctxTenant, body) == IF ctxTenant # NilUUID THEN ctxTenant ELSE body

\* LogHandler.IngestBatch: the tenant of the context is given only to the
\* entries whose tenant_id is uuid.Nil.
BatchTenant(ctxTenant, body) ==
    IF ctxTenant # NilUUID /\ body = NilUUID THEN ctxTenant ELSE body

\* POST /logs: TenantExtractor, LogHandler.IngestSingle, LogService.IngestSingle,
\* LogRepository.Create; a failed write persists nothing.
EndpointIngestSingle(header, body, ok) ==
    /\ Cardinality(persisted) < MaxWrites
    /\ LET ctxTenant == TenantExtractor(header) IN
       persisted' = IF ok THEN persisted \cup {[Path |-> "single", Ctx |-> ctxTenant,
                                               Body |-> body,
                                               Tenant |-> SingleTenant(ctxTenant, body)]}
                          ELSE persisted
    /\ UNCHANGED <<alerts, ingestPc, ingestEntry, ingestResult, evalPc, evalTodo,
                   notifications, updateFailed, adminVars, batchVars, matchVars, stampVars,
                   keyVars, notEndpointVars, evalFailed>>
    /\ UNCHANGED <<bufferVars, mainVars, clockVars, retVars, queryVars>>

\* POST /logs/batch: TenantExtractor, LogHandler.IngestBatch,
\* LogService.IngestBatch, LogRepository.CreateBatch.
EndpointIngestBatch(header, bodies, ok) ==
    /\ Cardinality(persisted) < MaxWrites
    /\ LET ctxTenant == TenantExtractor(header) IN
       persisted' = IF ok THEN persisted \cup {[Path |-> "batch", Ctx |-> ctxTenant,
                                               Body |-> bodies[i],
                                               Tenant |-> BatchTenant(ctxTenant, bodies[i])] :
                                              i \in 1..Len(bodies)}
                          ELSE persisted
    /\ UNCHANGED <<alerts, ingestPc, ingestEntry, ingestResult, evalPc, evalTodo,
                   notifications, updateFailed, adminVars, batchVars, matchVars, stampVars,
                   keyVars, notEndpointVars, evalFailed>>
    /\ UNCHANGED <<bufferVars, mainVars, clockVars, retVars, queryVars>>

NextEndpoint ==
    \/ \E h \in TenantHeaders, b \in BodyTenants, ok \in BOOLEAN : EndpointIngestSingle(h, b, ok)
    \/ \E h \in TenantHeaders, bs \in BatchBodies, ok \in BOOLEAN : EndpointIngestBatch(h, bs, ok)

SpecEndpoint == Init /\ [][NextEndpoint]_vars

\* C40: an entry ingested by a request that carries tenant context T is
\* persisted with tenant T, through the single and through the batch
\* ingestion endpoint.
C40_PersistedWithRequestTenant ==
    \A w \in persisted : w.Ctx # NilUUID => w.Tenant = w.Ctx

\* What the endpoints do ensure: the single endpoint always persists the
\* tenant of the context, and the batch endpoint does so for the entries
\* that name no tenant themselves.
C40_TenantKeptUnlessBatchEntryNamesOne ==
    \A w \in persisted :
        (w.Ctx # NilUUID /\ (w.Path = "single" \/ w.Body = NilUUID)) => w.Tenant = w.Ctx

====
